---------------------------- MODULE Spec2Model ----------------------------
(***************************************************************************)
(* A model of the Synacor virtual machine of src/src/vm.rs: the operand    *)
(* and instruction decoder, Vm::load, Vm::step and Vm::run, driven by a    *)
(* client that uses the Vm's public interface.                             *)
(*                                                                         *)
(* Words are u16 values, 0..65535.  The memory [u16; 32768] is held as a   *)
(* function from the addresses whose word is not zero to that word: every  *)
(* address of 0..32767 outside its domain holds 0 (MemGet), so the array   *)
(* keeps its real length while a state stays small.                        *)
(***************************************************************************)
EXTENDS Integers, Sequences, FiniteSets, TLC

VARIABLES
    memory,     \* Vm.memory, as the function of its nonzero words
    registers,  \* Vm.registers, 0..7 -> word
    ip,         \* Vm.ip (a usize)
    stack,      \* Vm.stack, a sequence of words, top last
    input,      \* the bytes the reader will still deliver before end of file
    output,     \* the bytes the writer has accepted, in order
    last,       \* the last call of the Vm and what it returned
    pc,         \* "idle", "run" inside the loop of Vm::run, "done" after it;
                \* in a Tracer session "prompt", "continue", "input", "quit"
                \* and "exit"
    runRet,     \* what the last Vm::run returned (tag "None" before it returns)
    loads,      \* number of Vm::load calls made by the client
    edits,      \* number of direct mutations and input bytes supplied
    frames,     \* history: the Calls whose return address is still on the
                \* stack, each with its address and the stack before it
    tracer,     \* the Tracer of bin/tracevm.rs around the Vm: its fields, and
                \* the locals of the command it is in the middle of
    disas,      \* the disassembler tool (bin/disas.rs): its position, the
                \* program read, the options, the ImageMap and the text
                \* written
    hist        \* history of the Tracer session: the commands read and the
                \* instructions executed by the running command

vars == <<memory, registers, ip, stack, input, output, last, pc, runRet,
          loads, edits, frames, tracer, hist, disas>>

vmVars == <<memory, registers, ip, stack>>

-----------------------------------------------------------------------------
(* Program constants *)

U16_MODULUS == 65536
MEMORY_LEN == 32768
NUM_REGISTERS == 8
INDIRECT_BIT == 32768
VALID_REGISTER_MASK == 32760
REGISTER_MASK == 7
VALID_IO_MASK == 65280
CARRIAGE_RETURN == 13

(* Bounds of the model *)

MaxEdits == 2
MaxStack == 3
MaxOutput == 2

-----------------------------------------------------------------------------
(* u16 arithmetic *)

RECURSIVE BitAnd(_, _)
BitAnd(a, b) ==
    IF a = 0 \/ b = 0 THEN 0
    ELSE (a % 2) * (b % 2) + 2 * BitAnd(a \div 2, b \div 2)

RECURSIVE BitOr(_, _)
BitOr(a, b) ==
    IF a = 0 THEN b
    ELSE IF b = 0 THEN a
    ELSE (IF a % 2 = 1 \/ b % 2 = 1 THEN 1 ELSE 0)
         + 2 * BitOr(a \div 2, b \div 2)

BitNot(a) == (U16_MODULUS - 1) - a

WrappingAdd(a, b) == (a + b) % U16_MODULUS

(* (a * b) mod 2^16, computed on the two bytes of a so that no product    *)
(* leaves the 32-bit integers of the model checker                         *)
WrappingMul(a, b) ==
    ((((a % 256) * b) % U16_MODULUS)
       + ((((a \div 256) * b) % 256) * 256)) % U16_MODULUS

-----------------------------------------------------------------------------
(* Results.  Every result is a record [tag, val, arg]: Ok(v) carries the   *)
(* value v, Err(e, n) the name of a vm::Error and its payload (0 if none). *)

Ok(v) == [tag |-> "Ok", val |-> v, arg |-> 0]

Err(e, n) == [tag |-> "Err", val |-> e, arg |-> n]

Panic(why) == [tag |-> "Panic", val |-> why, arg |-> 0]

NoResult == [tag |-> "None", val |-> "", arg |-> 0]

Immediate(w) == [tag |-> "Immediate", val |-> w]

Register(r) == [tag |-> "Register", val |-> r]

-----------------------------------------------------------------------------
(* Memory as a slice *)

MemGet(mem, a) == IF a \in DOMAIN mem THEN mem[a] ELSE 0

MemSet(mem, a, w) ==
    IF w = 0
    THEN [x \in (DOMAIN mem) \ {a} |-> mem[x]]
    ELSE [x \in (DOMAIN mem) \cup {a} |-> IF x = a THEN w ELSE mem[x]]

(* InSlice off by one: the address len is taken to be in the slice *)
InSliceInclusive(len, a) == a >= 0 /\ a <= len

(* memory.get(a) of a slice of len words is Some exactly for these a *)
InSlice(len, a) == a >= 0 /\ a < len

-----------------------------------------------------------------------------
(* Operand decoding *)

(* SrcOperandDecode without the check of the bits between 3 and 14 *)
SrcOperandDecodeUnchecked(word) ==
    IF BitAnd(word, INDIRECT_BIT) # 0
    THEN Ok(Register(BitAnd(word, REGISTER_MASK)))
    ELSE Ok(Immediate(word))

SrcOperandDecode(word) ==
    IF BitAnd(word, INDIRECT_BIT) # 0
    THEN IF BitAnd(word, VALID_REGISTER_MASK) # 0
         THEN Err("InvalidSrcOperand", word)
         ELSE Ok(Register(BitAnd(word, REGISTER_MASK)))
    ELSE Ok(Immediate(word))

SrcOperandDecodeAt(mem, len, a) ==
    IF InSlice(len, a) THEN SrcOperandDecode(MemGet(mem, a))
    ELSE Err("InvalidIp", a)

(* DstOperandDecode that takes a literal for a destination *)
DstOperandDecodeTakesLiterals(word) ==
    IF BitAnd(word, INDIRECT_BIT) # 0
    THEN IF BitAnd(word, VALID_REGISTER_MASK) # 0
         THEN Err("InvalidDstOperand", word)
         ELSE Ok(Register(BitAnd(word, REGISTER_MASK)))
    ELSE Ok(Register(BitAnd(word, REGISTER_MASK)))

DstOperandDecode(word) ==
    IF BitAnd(word, INDIRECT_BIT) # 0
    THEN IF BitAnd(word, VALID_REGISTER_MASK) # 0
         THEN Err("InvalidDstOperand", word)
         ELSE Ok(Register(BitAnd(word, REGISTER_MASK)))
    ELSE Err("InvalidDstOperand", word)

DstOperandDecodeAt(mem, len, a) ==
    IF InSlice(len, a) THEN DstOperandDecode(MemGet(mem, a))
    ELSE Err("InvalidIp", a)


-----------------------------------------------------------------------------
(* Instruction decoding.  OpTable lists the match arms of                  *)
(* Instruction::decode in opcode order: the variant and the kind of each   *)
(* operand, in the order the arm decodes them.                             *)

OpTable ==
    << [op |-> "Halt", kinds |-> <<>>],
       [op |-> "Set",  kinds |-> <<"Dst", "Src">>],
       [op |-> "Push", kinds |-> <<"Src">>],
       [op |-> "Pop",  kinds |-> <<"Dst">>],
       [op |-> "Eq",   kinds |-> <<"Dst", "Src", "Src">>],
       [op |-> "Gt",   kinds |-> <<"Dst", "Src", "Src">>],
       [op |-> "Jmp",  kinds |-> <<"Src">>],
       [op |-> "Jt",   kinds |-> <<"Src", "Src">>],
       [op |-> "Jf",   kinds |-> <<"Src", "Src">>],
       [op |-> "Add",  kinds |-> <<"Dst", "Src", "Src">>],
       [op |-> "Mult", kinds |-> <<"Dst", "Src", "Src">>],
       [op |-> "Mod",  kinds |-> <<"Dst", "Src", "Src">>],
       [op |-> "And",  kinds |-> <<"Dst", "Src", "Src">>],
       [op |-> "Or",   kinds |-> <<"Dst", "Src", "Src">>],
       [op |-> "Not",  kinds |-> <<"Dst", "Src">>],
       [op |-> "Rmem", kinds |-> <<"Dst", "Src">>],
       [op |-> "Wmem", kinds |-> <<"Src", "Src">>],
       [op |-> "Call", kinds |-> <<"Src">>],
       [op |-> "Ret",  kinds |-> <<>>],
       [op |-> "Out",  kinds |-> <<"Src">>],
       [op |-> "In",   kinds |-> <<"Dst">>],
       [op |-> "Noop", kinds |-> <<>>] >>

(* The operand at a, decoded as the arm asks *)
OperandDecodeAt(kind, mem, len, a) ==
    IF kind = "Dst" THEN DstOperandDecodeAt(mem, len, a)
    ELSE SrcOperandDecodeAt(mem, len, a)

(* The first operand that fails to decode, 0 if none: the ? of each        *)
(* decode_at returns at the first failure, in operand order.               *)
FirstFailure(ops) ==
    LET bad == { i \in DOMAIN ops : ops[i].tag = "Err" }
    IN  IF bad = {} THEN 0
        ELSE CHOOSE i \in bad : \A j \in bad : i <= j

InstructionDecode(mem, len, a) ==
    IF ~InSlice(len, a) THEN Err("InvalidIp", a)
    ELSE
      LET word == MemGet(mem, a) IN
      IF word >= Len(OpTable) THEN Err("IllegalInstruction", word)
      ELSE
        LET arm == OpTable[word + 1]
            ops == [ i \in 1..Len(arm.kinds) |->
                       OperandDecodeAt(arm.kinds[i], mem, len, a + i) ]
            bad == FirstFailure(ops)
        IN  IF bad # 0 THEN ops[bad]
            ELSE [tag |-> "Ok",
                  next |-> a + 1 + Len(arm.kinds),
                  instr |-> [op |-> arm.op,
                             args |-> [ i \in 1..Len(arm.kinds) |-> ops[i].val ]]]

-----------------------------------------------------------------------------
(* The Vm as a value: s is a record of the Vm's fields, the reader's and   *)
(* the writer's contents, and ret, what the call in progress returns.      *)

VmNew ==
    [ memory    |-> << >>,
      registers |-> [ r \in 0..(NUM_REGISTERS - 1) |-> 0 ],
      ip        |-> 0,
      stack     |-> << >> ]

ReadSrc(s, operand) ==
    IF operand.tag = "Immediate" THEN operand.val
    ELSE s.registers[operand.val]

(* WriteDst that also raises a flag in the last register *)
WriteDstAndFlag(s, operand, word) ==
    [s EXCEPT !.registers = [@ EXCEPT ![NUM_REGISTERS - 1] = 1,
                                      ![operand.val] = word]]

WriteDst(s, operand, word) ==
    [s EXCEPT !.registers[operand.val] = word]

(* Ok(word), or the InvalidAddress error *)
ReadIndirect(s, ptr) ==
    IF InSlice(MEMORY_LEN, ptr) THEN Ok(MemGet(s.memory, ptr))
    ELSE Err("InvalidAddress", ptr)

(* WriteIndirect that wraps the pointer into the memory and never fails *)
WriteIndirectWrapped(s, ptr, word) ==
    [s EXCEPT !.memory = MemSet(s.memory, ptr % MEMORY_LEN, word),
              !.ret = Ok("()")]

(* The Vm after the write, its ret the InvalidAddress error if it failed *)
WriteIndirect(s, ptr, word) ==
    IF InSlice(MEMORY_LEN, ptr)
    THEN [s EXCEPT !.memory = MemSet(s.memory, ptr, word), !.ret = Ok("()")]
    ELSE [s EXCEPT !.ret = Err("InvalidAddress", ptr)]

(* return from step with r, leaving the Vm as it is at that point *)
Return(s, r) == [s EXCEPT !.ret = r]

(* the end of step: self.ip = new_ip; Ok(VmState::Running) *)
Commit(s, new_ip) == [s EXCEPT !.ip = new_ip, !.ret = Ok("Running")]

-----------------------------------------------------------------------------
(* The arms of the match in Vm::step.  args are the decoded operands,      *)
(* new_ip the decoder's next address.                                      *)

(* ExecHalt that moves past the Halt before it returns *)
ExecHaltAdvances(s) == [s EXCEPT !.ip = s.ip + 1, !.ret = Ok("Halted")]

ExecHalt(s) == Return(s, Ok("Halted"))

ExecSet(s, args, new_ip) ==
    Commit(WriteDst(s, args[1], ReadSrc(s, args[2])), new_ip)

ExecPush(s, args, new_ip) ==
    Commit([s EXCEPT !.stack = Append(s.stack, ReadSrc(s, args[1]))], new_ip)

(* ExecPop with the empty stack treated as Ret treats it *)
ExecPopHalts(s, args, new_ip) ==
    IF s.stack # << >>
    THEN Commit(WriteDst([s EXCEPT !.stack = SubSeq(s.stack, 1, Len(s.stack) - 1)],
                         args[1], s.stack[Len(s.stack)]),
                new_ip)
    ELSE Return(s, Ok("Halted"))

ExecPop(s, args, new_ip) ==
    IF s.stack # << >>
    THEN Commit(WriteDst([s EXCEPT !.stack = SubSeq(s.stack, 1, Len(s.stack) - 1)],
                         args[1], s.stack[Len(s.stack)]),
                new_ip)
    ELSE Return(s, Err("StackUnderflow", 0))

ExecEq(s, args, new_ip) ==
    Commit(WriteDst(s, args[1],
             IF ReadSrc(s, args[2]) = ReadSrc(s, args[3]) THEN 1 ELSE 0),
           new_ip)

ExecGt(s, args, new_ip) ==
    Commit(WriteDst(s, args[1],
             IF ReadSrc(s, args[2]) > ReadSrc(s, args[3]) THEN 1 ELSE 0),
           new_ip)

ExecJmp(s, args, new_ip) == Commit(s, ReadSrc(s, args[1]))

ExecJt(s, args, new_ip) ==
    IF ReadSrc(s, args[1]) # 0 THEN Commit(s, ReadSrc(s, args[2]))
    ELSE Commit(s, new_ip)

(* ExecJf that jumps when the condition is not zero *)
ExecJfOnNonzero(s, args, new_ip) ==
    IF ReadSrc(s, args[1]) # 0 THEN Commit(s, ReadSrc(s, args[2]))
    ELSE Commit(s, new_ip)

ExecJf(s, args, new_ip) ==
    IF ReadSrc(s, args[1]) = 0 THEN Commit(s, ReadSrc(s, args[2]))
    ELSE Commit(s, new_ip)

(* AddWord without the mask *)
AddWordUnmasked(lhs, rhs) == WrappingAdd(lhs, rhs)

AddWord(lhs, rhs) == BitAnd(WrappingAdd(lhs, rhs), BitNot(INDIRECT_BIT))

ExecAdd(s, args, new_ip) ==
    Commit(WriteDst(s, args[1],
             AddWord(ReadSrc(s, args[2]), ReadSrc(s, args[3]))),
           new_ip)

MultWord(lhs, rhs) == BitAnd(WrappingMul(lhs, rhs), BitNot(INDIRECT_BIT))

ExecMult(s, args, new_ip) ==
    Commit(WriteDst(s, args[1],
             MultWord(ReadSrc(s, args[2]), ReadSrc(s, args[3]))),
           new_ip)

(* u16 % u16 panics when the divisor is zero *)
ExecMod(s, args, new_ip) ==
    IF ReadSrc(s, args[3]) = 0
    THEN Return(s, Panic("remainder with a divisor of zero"))
    ELSE Commit(WriteDst(s, args[1],
                  ReadSrc(s, args[2]) % ReadSrc(s, args[3])),
                new_ip)

ExecAnd(s, args, new_ip) ==
    Commit(WriteDst(s, args[1],
             BitAnd(ReadSrc(s, args[2]), ReadSrc(s, args[3]))),
           new_ip)

ExecOr(s, args, new_ip) ==
    Commit(WriteDst(s, args[1],
             BitOr(ReadSrc(s, args[2]), ReadSrc(s, args[3]))),
           new_ip)

NotWord(src) == BitAnd(BitNot(src), BitNot(INDIRECT_BIT))

ExecNot(s, args, new_ip) ==
    Commit(WriteDst(s, args[1], NotWord(ReadSrc(s, args[2]))), new_ip)

ExecRmem(s, args, new_ip) ==
    LET word == ReadIndirect(s, ReadSrc(s, args[2]))
    IN  IF word.tag = "Err" THEN Return(s, word)
        ELSE Commit(WriteDst(s, args[1], word.val), new_ip)

ExecWmem(s, args, new_ip) ==
    LET t == WriteIndirect(s, ReadSrc(s, args[1]), ReadSrc(s, args[2]))
    IN  IF t.ret.tag = "Err" THEN t
        ELSE Commit(t, new_ip)

(* ExecCall that pushes the address of the Call itself *)
ExecCallPushesOwnAddress(s, args, new_ip) ==
    LET t == [s EXCEPT !.stack = Append(s.stack, s.ip % U16_MODULUS)]
    IN  Commit(t, ReadSrc(t, args[1]))

(* new_ip as u16: new_ip is at most 32768 here *)
ExecCall(s, args, new_ip) ==
    LET t == [s EXCEPT !.stack = Append(s.stack, new_ip % U16_MODULUS)]
    IN  Commit(t, ReadSrc(t, args[1]))

ExecRet(s) ==
    IF s.stack # << >>
    THEN Commit([s EXCEPT !.stack = SubSeq(s.stack, 1, Len(s.stack) - 1)],
                s.stack[Len(s.stack)])
    ELSE Return(s, Ok("Halted"))

(* ExecOut that truncates the word without checking it *)
ExecOutTruncates(s, args, new_ip, writeOk) ==
    IF ~writeOk THEN Return(s, Err("IOError", 0))
    ELSE Commit([s EXCEPT !.output = Append(s.output, ReadSrc(s, args[1]) % 256)],
                new_ip)

(* ExecOut that writes the byte in front of the bytes already written *)
ExecOutPrepends(s, args, new_ip, writeOk) ==
    LET byte == ReadSrc(s, args[1])
    IN  IF BitAnd(byte, VALID_IO_MASK) # 0
        THEN Return(s, Err("InvalidIOWord", byte))
        ELSE IF ~writeOk THEN Return(s, Err("IOError", 0))
        ELSE Commit([s EXCEPT !.output = <<byte % 256>> \o s.output], new_ip)

(* writeOk: whether the writer accepts the byte (write_all returns Ok) *)
ExecOut(s, args, new_ip, writeOk) ==
    LET byte == ReadSrc(s, args[1])
    IN  IF BitAnd(byte, VALID_IO_MASK) # 0
        THEN Return(s, Err("InvalidIOWord", byte))
        ELSE IF ~writeOk THEN Return(s, Err("IOError", 0))
        ELSE Commit([s EXCEPT !.output = Append(s.output, byte % 256)], new_ip)

(* SkipCarriageReturns that gives up after one carriage return *)
SkipOneCarriageReturn(bytes) ==
    IF bytes # << >> /\ Head(bytes) = CARRIAGE_RETURN
    THEN Tail(bytes)
    ELSE bytes

(* what is left of the input once the leading carriage returns are read *)
RECURSIVE SkipCarriageReturns(_)
SkipCarriageReturns(bytes) ==
    IF bytes # << >> /\ Head(bytes) = CARRIAGE_RETURN
    THEN SkipCarriageReturns(Tail(bytes))
    ELSE bytes

(* ExecIn that stores the buffer, still zero, when the read fails *)
ExecInStoresOnFailure(s, args, new_ip) ==
    LET rest == SkipCarriageReturns(s.input)
    IN  IF rest = << >>
        THEN Return(WriteDst([s EXCEPT !.input = << >>], args[1], 0),
                    Err("IOError", 0))
        ELSE Commit(WriteDst([s EXCEPT !.input = Tail(rest)],
                             args[1], Head(rest)),
                    new_ip)

(* read_exact of one byte fails at the end of the input *)
ExecIn(s, args, new_ip) ==
    LET rest == SkipCarriageReturns(s.input)
    IN  IF rest = << >>
        THEN Return([s EXCEPT !.input = << >>], Err("IOError", 0))
        ELSE Commit(WriteDst([s EXCEPT !.input = Tail(rest)],
                             args[1], Head(rest)),
                    new_ip)

ExecNoop(s, new_ip) == Commit(s, new_ip)

Execute(s, instr, new_ip, writeOk) ==
    LET op == instr.op
        args == instr.args
    IN  CASE op = "Halt" -> ExecHalt(s)
          [] op = "Set"  -> ExecSet(s, args, new_ip)
          [] op = "Push" -> ExecPush(s, args, new_ip)
          [] op = "Pop"  -> ExecPop(s, args, new_ip)
          [] op = "Eq"   -> ExecEq(s, args, new_ip)
          [] op = "Gt"   -> ExecGt(s, args, new_ip)
          [] op = "Jmp"  -> ExecJmp(s, args, new_ip)
          [] op = "Jt"   -> ExecJt(s, args, new_ip)
          [] op = "Jf"   -> ExecJf(s, args, new_ip)
          [] op = "Add"  -> ExecAdd(s, args, new_ip)
          [] op = "Mult" -> ExecMult(s, args, new_ip)
          [] op = "Mod"  -> ExecMod(s, args, new_ip)
          [] op = "And"  -> ExecAnd(s, args, new_ip)
          [] op = "Or"   -> ExecOr(s, args, new_ip)
          [] op = "Not"  -> ExecNot(s, args, new_ip)
          [] op = "Rmem" -> ExecRmem(s, args, new_ip)
          [] op = "Wmem" -> ExecWmem(s, args, new_ip)
          [] op = "Call" -> ExecCall(s, args, new_ip)
          [] op = "Ret"  -> ExecRet(s)
          [] op = "Out"  -> ExecOut(s, args, new_ip, writeOk)
          [] op = "In"   -> ExecIn(s, args, new_ip)
          [] op = "Noop" -> ExecNoop(s, new_ip)

(* Vm::decode_next *)
DecodeNext(s) == InstructionDecode(s.memory, MEMORY_LEN, s.ip)

(* Vm::step: the Vm, reader and writer after the call, and what it returns *)
VmStep(s, writeOk) ==
    LET d == DecodeNext(s)
    IN  IF d.tag = "Err" THEN Return(s, d)
        ELSE Execute(s, d.instr, d.next, writeOk)

-----------------------------------------------------------------------------
(* Vm::load.  A program is [pad, words]: pad zero words, then words.      *)

ProgramLen(program) == program.pad + Len(program.words)

ProgramMemory(program) ==
    [ a \in { program.pad + i - 1 :
                i \in { j \in DOMAIN program.words : program.words[j] # 0 } }
        |-> program.words[a - program.pad + 1] ]

(* VmLoad that copies the program over the memory without clearing it *)
VmLoadKeepsTail(s, program) ==
    IF ProgramLen(program) > MEMORY_LEN
    THEN Return(s, Err("ProgramTooLarge", ProgramLen(program)))
    ELSE [s EXCEPT
            !.memory =
                [ a \in { b \in DOMAIN s.memory : b >= ProgramLen(program) }
                        \cup DOMAIN ProgramMemory(program)
                    |-> IF a \in DOMAIN ProgramMemory(program)
                        THEN ProgramMemory(program)[a]
                        ELSE s.memory[a] ],
            !.ret = Ok("()")]

VmLoad(s, program) ==
    IF ProgramLen(program) > MEMORY_LEN
    THEN Return(s, Err("ProgramTooLarge", ProgramLen(program)))
    ELSE [s EXCEPT !.memory = ProgramMemory(program), !.ret = Ok("()")]

-----------------------------------------------------------------------------
(* The disassembler (asm.rs).  Text is a sequence of characters, a label   *)
(* table (a HashMap from address to name) the set of its pairs             *)
(* [ptr, name], Option<HashMap> a record [tag, val] with val the table.    *)

(* the printable characters, from ' ' (32) to '~' (126); the grave accent  *)
(* (96) cannot be written in a string and is spelled out                   *)
AsciiGraphic ==
    << " ", "!", "\"", "#", "$", "%", "&", "'", "(", ")", "*", "+",
       ",", "-", ".", "/", "0", "1", "2", "3", "4", "5", "6", "7",
       "8", "9", ":", ";", "<", "=", ">", "?", "@", "A", "B", "C",
       "D", "E", "F", "G", "H", "I", "J", "K", "L", "M", "N", "O",
       "P", "Q", "R", "S", "T", "U", "V", "W", "X", "Y", "Z", "[",
       "\\", "]", "^", "_", "grave", "a", "b", "c", "d", "e", "f", "g",
       "h", "i", "j", "k", "l", "m", "n", "o", "p", "q", "r", "s",
       "t", "u", "v", "w", "x", "y", "z", "{", "|", "}", "~" >>

DecimalDigits == <<"0", "1", "2", "3", "4", "5", "6", "7", "8", "9">>

(* format!("{}", n) of an unsigned n *)
RECURSIVE ToDecimal(_)
ToDecimal(n) ==
    IF n < 10 THEN <<DecimalDigits[n + 1]>>
    ELSE ToDecimal(n \div 10) \o <<DecimalDigits[(n % 10) + 1]>>

(* labels.get(&a) *)
LabelsGet(labels, a) ==
    IF \E l \in labels : l.ptr = a
    THEN [tag |-> "Some", val |-> (CHOOSE l \in labels : l.ptr = a).name]
    ELSE [tag |-> "None", val |-> << >>]

Instruction(at, instr) ==
    [ip |-> at, tag |-> "Instruction", instr |-> instr, word |-> 0]

AsmValue(at, word) ==
    [ip |-> at, tag |-> "Value", instr |-> [op |-> "", args |-> << >>],
     word |-> word]

(* EntryOrInsert that replaces the name an address already has *)
EntryInsert(m, dst, prefix) ==
    [m EXCEPT !.labels = { l \in @ : l.ptr # dst }
                          \cup { [ptr |-> dst,
                                  name |-> prefix \o ToDecimal(m.next_label)] },
              !.next_label = @ + 1]

(* labels.entry(dst).or_insert_with(..): the name is made, and the counter *)
(* moved, only when dst has no label                                       *)
EntryOrInsert(m, dst, prefix) ==
    IF LabelsGet(m.labels, dst).tag = "Some" THEN m
    ELSE [m EXCEPT !.labels = @ \cup { [ptr |-> dst,
                                        name |-> prefix \o ToDecimal(m.next_label)] },
                   !.next_label = @ + 1]

(* AddLabels without the arm of Jf *)
AddLabelsButJf(at, instr, m) ==
    LET site(i, prefix) ==
          [EntryOrInsert(m, instr.args[i].val, prefix)
             EXCEPT !.origins = @ \cup {at + i}]
    IN  CASE instr.op = "Jmp" /\ instr.args[1].tag = "Immediate" ->
               site(1, <<"l", "b", "l">>)
          [] instr.op = "Jt" /\ instr.args[2].tag = "Immediate" ->
               site(2, <<"l", "b", "l">>)
          [] instr.op = "Call" /\ instr.args[1].tag = "Immediate" ->
               site(1, <<"f", "n">>)
          [] OTHER -> m

(* ImageMap::add_labels; m holds labels, origins and next_label *)
AddLabels(at, instr, m) ==
    LET site(i, prefix) ==
          [EntryOrInsert(m, instr.args[i].val, prefix)
             EXCEPT !.origins = @ \cup {at + i}]
    IN  CASE instr.op = "Jmp" /\ instr.args[1].tag = "Immediate" ->
               site(1, <<"l", "b", "l">>)
          [] instr.op \in {"Jt", "Jf"} /\ instr.args[2].tag = "Immediate" ->
               site(2, <<"l", "b", "l">>)
          [] instr.op = "Call" /\ instr.args[1].tag = "Immediate" ->
               site(1, <<"f", "n">>)
          [] OTHER -> m

(* SweepItem that goes on one word after an instruction, whatever its width *)
SweepItemByOne(mem, len, autolabel, at, m) ==
    LET res == InstructionDecode(mem, len, at)
    IN  IF res.tag = "Ok"
        THEN LET pushed == [m EXCEPT !.stmts = Append(@, Instruction(at, res.instr))]
             IN  [next |-> at + 1,
                  m |-> IF autolabel THEN AddLabels(at, res.instr, pushed)
                        ELSE pushed]
        ELSE [next |-> at + 1,
              m |-> [m EXCEPT !.stmts = Append(@, AsmValue(at, MemGet(mem, at)))]]

(* one turn of the loop of ImageMap::new *)
SweepItem(mem, len, autolabel, at, m) ==
    LET res == InstructionDecode(mem, len, at)
    IN  IF res.tag = "Ok"
        THEN LET pushed == [m EXCEPT !.stmts = Append(@, Instruction(at, res.instr))]
             IN  [next |-> res.next,
                  m |-> IF autolabel THEN AddLabels(at, res.instr, pushed)
                        ELSE pushed]
        ELSE [next |-> at + 1,
              m |-> [m EXCEPT !.stmts = Append(@, AsmValue(at, MemGet(mem, at)))]]

(* the loop of ImageMap::new up to stop, an address from which every word  *)
(* of the slice is zero                                                    *)
RECURSIVE Sweep(_, _, _, _, _, _)
Sweep(mem, len, stop, autolabel, at, m) ==
    IF at >= stop THEN [rest |-> at, m |-> m]
    ELSE LET turn == SweepItem(mem, len, autolabel, at, m)
         IN  Sweep(mem, len, stop, autolabel, turn.next, turn.m)

(* ImageMap::new.  The Vm's memory has 32768 words, nearly all of them     *)
(* zero: a zero word decodes as Halt, one word wide, with no label and no  *)
(* origin, so the items from the first address the sweep reaches behind    *)
(* the last nonzero word are kept as that address, rest, and the length    *)
(* of the slice: stmts \o <Halt at rest, ..., Halt at len - 1> is the Vec  *)
(* the code builds.                                                        *)
ImageMapNew(mem, len, opts) ==
    LET used == { a \in DOMAIN mem : a < len }
        stop == IF used = {} THEN 0
                ELSE 1 + CHOOSE a \in used : \A b \in used : b <= a
        seed == IF opts.initial_labels.tag = "Some"
                THEN opts.initial_labels.val ELSE {}
        swept == Sweep(mem, len, stop, opts.autolabel, 0,
                       [stmts |-> << >>, labels |-> seed, origins |-> {},
                        next_label |-> 0])
    IN  [stmts |-> swept.m.stmts, rest |-> swept.rest, len |-> len,
         labels |-> swept.m.labels, origins |-> swept.m.origins]

(* map.stmts in full *)
Stmts(map) ==
    map.stmts \o [ i \in 1..(map.len - map.rest) |->
                     Instruction(map.rest + i - 1,
                                 [op |-> "Halt", args |-> << >>]) ]

Mnemonic(op) ==
    CASE op = "Halt" -> <<"h", "a", "l", "t">>
      [] op = "Set" -> <<"s", "e", "t">>
      [] op = "Push" -> <<"p", "u", "s", "h">>
      [] op = "Pop" -> <<"p", "o", "p">>
      [] op = "Eq" -> <<"e", "q">>
      [] op = "Gt" -> <<"g", "t">>
      [] op = "Jmp" -> <<"j", "m", "p">>
      [] op = "Jt" -> <<"j", "t">>
      [] op = "Jf" -> <<"j", "f">>
      [] op = "Add" -> <<"a", "d", "d">>
      [] op = "Mult" -> <<"m", "u", "l", "t">>
      [] op = "Mod" -> <<"m", "o", "d">>
      [] op = "And" -> <<"a", "n", "d">>
      [] op = "Or" -> <<"o", "r">>
      [] op = "Not" -> <<"n", "o", "t">>
      [] op = "Rmem" -> <<"r", "m", "e", "m">>
      [] op = "Wmem" -> <<"w", "m", "e", "m">>
      [] op = "Call" -> <<"c", "a", "l", "l">>
      [] op = "Ret" -> <<"r", "e", "t">>
      [] op = "Out" -> <<"o", "u", "t">>
      [] op = "In" -> <<"i", "n">>
      [] op = "Noop" -> <<"n", "o", "o", "p">>

(* WordDisasm that shows the label of the value at every address *)
WordDisasmLabelsAnywhere(word, at, map) ==
    IF LabelsGet(map.labels, word).tag = "Some"
    THEN LabelsGet(map.labels, word).val
    ELSE LET word_u8 == word % 256
         IN  IF BitAnd(word, VALID_IO_MASK) = 0
                /\ word_u8 < 128 /\ ~(word_u8 < 32 \/ word_u8 = 127)
             THEN <<"'", AsciiGraphic[word_u8 - 31], "'">>
             ELSE ToDecimal(word)

(* impl DisAsm for u16: is_ascii is < 128, is_ascii_control 0..31 and 127 *)
WordDisasm(word, at, map) ==
    IF at \in map.origins /\ LabelsGet(map.labels, word).tag = "Some"
    THEN LabelsGet(map.labels, word).val
    ELSE LET word_u8 == word % 256
         IN  IF BitAnd(word, VALID_IO_MASK) = 0
                /\ word_u8 < 128 /\ ~(word_u8 < 32 \/ word_u8 = 127)
             THEN <<"'", AsciiGraphic[word_u8 - 31], "'">>
             ELSE ToDecimal(word)

(* impl DisAsm for SrcOperand and for DstOperand *)
OperandDisasm(kind, operand, at, map) ==
    IF kind = "Src" /\ operand.tag = "Immediate"
    THEN WordDisasm(operand.val, at, map)
    ELSE <<"r">> \o ToDecimal(operand.val)

(* impl DisAsm for Instruction: the mnemonic, a space before the first    *)
(* operand, ", " between operands, a line feed                            *)
InstructionDisasm(instr, at, map) ==
    LET kinds == (CHOOSE arm \in { OpTable[i] : i \in DOMAIN OpTable } :
                    arm.op = instr.op).kinds
        RECURSIVE operands(_)
        operands(i) ==
            IF i > Len(kinds) THEN << >>
            ELSE (IF i = 1 THEN <<" ">> ELSE <<",", " ">>)
                 \o OperandDisasm(kinds[i], instr.args[i], at + i, map)
                 \o operands(i + 1)
    IN  Mnemonic(instr.op) \o operands(1) \o <<"\n">>

(* impl DisAsm for AsmItem *)
AsmItemDisasm(item, map) ==
    LET label == LabelsGet(map.labels, item.ip)
    IN  (IF label.tag = "Some" THEN label.val \o <<":", " ">> ELSE << >>)
        \o (IF item.tag = "Instruction"
            THEN InstructionDisasm(item.instr, item.ip, map)
            ELSE WordDisasm(item.word, item.ip, map) \o <<"\n">>)

(* ImageMap::disasm into a writer that takes every byte *)
ImageMapDisasm(map, opts) ==
    LET RECURSIVE from(_)
        from(i) ==
            IF i > Len(Stmts(map)) THEN << >>
            ELSE (IF opts.line_addrs
                  THEN ToDecimal(Stmts(map)[i].ip) \o <<"\t">> ELSE << >>)
                 \o AsmItemDisasm(Stmts(map)[i], map)
                 \o from(i + 1)
    IN  from(1)

(* the ImageMap of an empty slice, and DisAsmOpts::default() *)
NoMap == [stmts |-> << >>, rest |-> 0, len |-> 0, labels |-> {}, origins |-> {}]

DefaultOpts ==
    [autolabel |-> TRUE, line_addrs |-> FALSE,
     initial_labels |-> [tag |-> "None", val |-> {}]]

(* bin/disas.rs before it has read anything *)
NoDisas ==
    [pc |-> "start", prog |-> [pad |-> 0, words |-> << >>],
     opts |-> DefaultOpts, map |-> NoMap, text |-> << >>]

-----------------------------------------------------------------------------

(* The inputs of the model *)

(* source operand words: the literal 1, and r0 *)
SrcWords == {1, 32768}

(* destination operand words: r0 *)
DstWords == {32768}

(* every instruction shape with operands that decode, alone at address 0,  *)
(* and two words that are no opcode                                        *)
OneInstruction ==
    { <<w>> : w \in {0, 18, 21, 22, 65535} }
    \cup { <<op, a>> : op \in {2, 6, 17, 19}, a \in SrcWords }
    \cup { <<op, d>> : op \in {3, 20}, d \in DstWords }
    \cup { <<op, d, a>> : op \in {1, 14, 15}, d \in DstWords, a \in SrcWords }
    \cup { <<op, a, b>> : op \in {7, 8, 16}, a \in SrcWords, b \in SrcWords }
    \cup { <<op, d, a, b>> : op \in {4, 5, 9, 10, 11, 12, 13},
                             d \in DstWords, a \in SrcWords, b \in SrcWords }

(* the binary operations on r0 and the literals 5 and 32767, the last      *)
(* register as a destination, the last address, the bounds of the I/O mask *)
OtherOperands ==
    { <<op, 32768, 32768, b>> : op \in {4, 5, 9, 10, 11, 12, 13},
                                b \in {5, 32767} }
    \cup { <<op, 32775, 32767, 32768>> : op \in {9, 10, 11} }
    \cup { <<1, 32775, 32768>>, <<3, 32775>>, <<20, 32775>>, <<15, 32775, 1>>,
           <<14, 32775, 32767>>, <<16, 32767, 32768>>, <<15, 32768, 32767>>,
           <<19, 255>>, <<19, 256>> }

(* operand words that do not decode: a literal as a destination, and      *)
(* 32776 and 65535, which have the high bit and name no register           *)
BadOperands ==
    { <<3, 7>>, <<3, 32776>>, <<20, 65535>>, <<2, 32776>>, <<19, 65535>>,
      <<1, 7, 1>>, <<1, 32768, 32776>>, <<16, 32776, 1>>, <<16, 1, 65535>>,
      <<9, 32767, 1, 1>>, <<9, 32776, 1, 1>>, <<9, 32768, 32776, 1>>,
      <<9, 32768, 1, 65535>>, <<11, 32768, 1, 32776>> }

(* calls and returns *)
CallPrograms ==
    { <<17, 4, 21, 0, 2, 1, 3, 32768, 18>>,  \* call 4; noop; halt; 4: push 1; pop r0; ret
      <<17, 3, 0, 18>>,                      \* call 3; halt; 3: ret
      <<17, 3, 0, 3, 32768, 18>>,            \* call 3; halt; 3: pop r0; ret
      <<17, 3, 0, 17, 5, 18>>,               \* call 3; halt; 3: call 5; 5: ret
      <<17, 4, 0, 0, 2, 9, 18>>,             \* call 4; halt; 4: push 9; ret
      <<19, 72, 19, 105, 0>>,                \* out 'H'; out 'i'; halt
      <<19, 255, 19, 0, 0>> }                \* out 255; out 0; halt

(* a program of exactly 32768 words, and one of 32769 *)
LongPrograms ==
    { [pad |-> MEMORY_LEN - 1, words |-> <<21>>],
      [pad |-> MEMORY_LEN, words |-> <<21>>] }

Programs ==
    { [pad |-> 0, words |-> w] :
        w \in OneInstruction \cup OtherOperands \cup BadOperands \cup CallPrograms }
    \cup LongPrograms

(* register values set through registers_mut *)
RegValues == {5, 32767, 32768, 65535}

(* the registers the client sets *)
SetRegisters == {0}

(* words pushed through push_stack *)
StackValues == {2, 40000}

(* bytes supplied to the reader *)
InputBytes == {13, 65}

-----------------------------------------------------------------------------
(* The state machine *)

Cur ==
    [ memory |-> memory, registers |-> registers, ip |-> ip, stack |-> stack,
      input |-> input, output |-> output, ret |-> NoResult ]

(* a value of last: the call, its argument (0 if it has none or it is not  *)
(* a number) and what it returned                                          *)
Called(call, arg, ret) == [call |-> call, arg |-> arg, ret |-> ret]

(* a panic unwinds out of the call: the Vm is used no further *)
Crashed == last.ret.tag = "Panic"

(* both clients (bin/vm.rs, bin/tracevm.rs) build the Vm with Vm::new and   *)
(* load the image, once, before they make any other call                   *)
Loaded == loads > 0

(* the value of last after a direct mutation: no result is pending *)
Mutated == Called("mutation", 0, NoResult)

(* Option<usize>, the target of a continue *)
None == [tag |-> "None", val |-> 0]

Some(v) == [tag |-> "Some", val |-> v]

(* Tracer::new: no breakpoint, the interrupt flag clear.  labels is the    *)
(* set of the pairs [ptr, name] of the label table, map the ImageMap of   *)
(* the memory, autolabel the option it is built with, terminal the bytes  *)
(* written to stdout by pump_output; til and single_step are locals of     *)
(* do_cmd and Tracer::step, kept while the Tracer waits for input.         *)
NoTracer ==
    [ breakpoints |-> {}, labels |-> {}, map |-> NoMap, autolabel |-> FALSE,
      interrupt |-> FALSE, terminal |-> << >>, til |-> None,
      single_step |-> FALSE ]

(* no command read; ran counts the instructions the running continue has   *)
(* executed, since those it has executed after the interrupt flag was      *)
(* raised while it ran (-1 when the flag was not raised)                   *)
NoHistory == [cmds |-> 0, ran |-> 0, since |-> -1]

Init ==
    /\ memory = VmNew.memory
    /\ registers = VmNew.registers
    /\ ip = VmNew.ip
    /\ stack = VmNew.stack
    /\ input = << >>
    /\ output = << >>
    /\ last = Called("new", 0, NoResult)
    /\ pc = "idle"
    /\ runRet = NoResult
    /\ loads = 0
    /\ edits = 0
    /\ frames = << >>
    /\ tracer = NoTracer
    /\ hist = NoHistory
    /\ disas = NoDisas

Load(program) ==
    /\ pc = "idle" /\ ~Crashed
    /\ ~Loaded
    /\ LET t == VmLoad(Cur, program)
       IN  /\ memory' = t.memory
           /\ last' = Called("load", 0, t.ret)
    /\ loads' = loads + 1
    /\ UNCHANGED <<registers, ip, stack, input, output, pc, runRet, edits,
                   frames,
                   tracer, hist, disas>>

(* vm.registers_mut()[reg] = val *)
SetReg(reg, val) ==
    /\ pc = "idle" /\ ~Crashed /\ Loaded
    /\ edits < MaxEdits
    /\ registers' = [registers EXCEPT ![reg] = val]
    /\ last' = Mutated
    /\ edits' = edits + 1
    /\ UNCHANGED <<memory, ip, stack, input, output, pc, runRet, loads,
                   frames,
                   tracer, hist, disas>>

PushStack(val) ==
    /\ pc = "idle" /\ ~Crashed /\ Loaded
    /\ edits < MaxEdits
    /\ Len(stack) < MaxStack
    /\ stack' = Append(stack, val)
    /\ last' = Mutated
    /\ edits' = edits + 1
    /\ UNCHANGED <<memory, registers, ip, input, output, pc, runRet, loads,
                   frames,
                   tracer, hist, disas>>

(* the environment: one more byte will be read before the end of the input *)
Feed(byte) ==
    /\ pc = "idle" /\ ~Crashed /\ Loaded
    /\ edits < MaxEdits
    /\ input' = Append(input, byte)
    /\ edits' = edits + 1
    /\ UNCHANGED <<memory, registers, ip, stack, output, last, pc, runRet,
                   loads, frames,
                   tracer, hist, disas>>

(* the history after a step from s to t: a Call adds its frame, and a      *)
(* frame is dropped once the stack is no longer than it was before the Call *)
FramesAfter(s, t) ==
    LET d == DecodeNext(s)
    IN  IF d.tag = "Ok" /\ d.instr.op = "Call" /\ t.ret = Ok("Running")
        THEN Append(frames, [at |-> s.ip, base |-> s.stack])
        ELSE SelectSeq(frames, LAMBDA f : Len(f.base) < Len(t.stack))

(* one call of Vm::step, t the Vm after it *)
Stepped(t) ==
    /\ Len(t.stack) <= MaxStack
    /\ Len(t.output) <= MaxOutput
    /\ memory' = t.memory
    /\ registers' = t.registers
    /\ ip' = t.ip
    /\ stack' = t.stack
    /\ input' = t.input
    /\ output' = t.output
    /\ last' = Called("step", 0, t.ret)
    /\ frames' = FramesAfter(Cur, t)

Step ==
    /\ pc = "idle" /\ ~Crashed /\ Loaded
    /\ \E writeOk \in BOOLEAN : Stepped(VmStep(Cur, writeOk))
    /\ UNCHANGED <<pc, runRet, loads, edits, tracer, hist, disas>>

(* main of bin/vm.rs: vm.load(&prog)?; vm.run(...)?  The loop of Vm::run is *)
(* entered, and runs until a step halts or fails.                          *)
Run ==
    /\ pc = "idle" /\ ~Crashed
    /\ last.call = "load" /\ last.ret.tag = "Ok"
    /\ pc' = "run"
    /\ last' = Called("run", 0, NoResult)
    /\ UNCHANGED <<memory, registers, ip, stack, input, output, runRet,
                   loads, edits, frames,
                   tracer, hist, disas>>

(* one turn of the loop of Vm::run; main returns when run does *)
RunLoop ==
    /\ pc = "run" /\ ~Crashed
    /\ \E writeOk \in BOOLEAN :
         LET t == VmStep(Cur, writeOk)
         IN  /\ Stepped(t)
             /\ IF t.ret = Ok("Halted")
                THEN pc' = "done" /\ runRet' = Ok("()")
                ELSE IF t.ret.tag = "Err"
                THEN pc' = "done" /\ runRet' = t.ret
                ELSE UNCHANGED <<pc, runRet>>
    /\ UNCHANGED <<loads, edits, tracer, hist, disas>>

Next ==
    \/ \E program \in Programs : Load(program)
    \/ \E reg \in SetRegisters, val \in RegValues : SetReg(reg, val)
    \/ \E val \in StackValues : PushStack(val)
    \/ \E byte \in InputBytes : Feed(byte)
    \/ Step
    \/ Run
    \/ RunLoop

Spec == Init /\ [][Next]_vars

-----------------------------------------------------------------------------
(* The operand decoders alone: the word at address 0 is any u16, and       *)
(* SrcOperand::decode_at and DstOperand::decode_at are applied to it.      *)

(* an operand result as a value of last: the variant and its payload *)
OperandResult(res) ==
    IF res.tag = "Ok" THEN [tag |-> "Ok", val |-> res.val.tag, arg |-> res.val.val]
    ELSE res

InitOperand ==
    /\ \E word \in 0..(U16_MODULUS - 1) :
         memory = ProgramMemory([pad |-> 0, words |-> <<word>>])
    /\ registers = VmNew.registers
    /\ ip = VmNew.ip
    /\ stack = VmNew.stack
    /\ input = << >>
    /\ output = << >>
    /\ last = Called("load", 0, Ok("()"))
    /\ pc = "idle"
    /\ runRet = NoResult
    /\ loads = 1
    /\ edits = 0
    /\ frames = << >>
    /\ tracer = NoTracer
    /\ hist = NoHistory
    /\ disas = NoDisas

SrcDecodeAt(a) ==
    /\ last' = Called("SrcOperand::decode_at", a,
                      OperandResult(SrcOperandDecodeAt(memory, MEMORY_LEN, a)))
    /\ UNCHANGED <<memory, registers, ip, stack, input, output, pc, runRet,
                   loads, edits, frames,
                   tracer, hist, disas>>

DstDecodeAt(a) ==
    /\ last' = Called("DstOperand::decode_at", a,
                      OperandResult(DstOperandDecodeAt(memory, MEMORY_LEN, a)))
    /\ UNCHANGED <<memory, registers, ip, stack, input, output, pc, runRet,
                   loads, edits, frames,
                   tracer, hist, disas>>

NextOperand == SrcDecodeAt(0) \/ DstDecodeAt(0)

SpecOperand == InitOperand /\ [][NextOperand]_vars

-----------------------------------------------------------------------------
(* The instruction decoder alone: Vm::decode(addr) on loaded images, with  *)
(* instructions at the start and at the very end of the memory.            *)

(* an opcode word and up to two operand words *)
DecodeWords ==
    { <<op>> : op \in 0..22 }
    \cup { <<op, x>> : op \in 0..22, x \in {1, 32768, 32776} }
    \cup { <<op, x, y>> : op \in {1, 4, 7, 9, 15, 16},
                          x \in {7, 32768, 32776}, y \in {1, 32769, 65535} }

(* the words at address 0, and the same words ending at the last address *)
DecodePrograms ==
    { [pad |-> 0, words |-> w] : w \in DecodeWords }
    \cup { [pad |-> MEMORY_LEN - Len(w), words |-> w] : w \in DecodeWords }

DecodeAddrs ==
    { 0, MEMORY_LEN - 3, MEMORY_LEN - 2, MEMORY_LEN - 1, MEMORY_LEN,
      U16_MODULUS - 1 }

(* a decode result as a value of last: the variant and the next address *)
DecodeResult(res) ==
    IF res.tag = "Ok" THEN [tag |-> "Ok", val |-> res.instr.op, arg |-> res.next]
    ELSE res

(* Vm::decode(addr) *)
DecodeAt(addr) ==
    /\ pc = "idle" /\ Loaded
    /\ last' = Called("decode", addr,
                      DecodeResult(InstructionDecode(memory, MEMORY_LEN, addr)))
    /\ UNCHANGED <<memory, registers, ip, stack, input, output, pc, runRet,
                   loads, edits, frames,
                   tracer, hist, disas>>

NextDecode ==
    \/ \E program \in DecodePrograms : Load(program)
    \/ \E addr \in DecodeAddrs : DecodeAt(addr)

SpecDecode == Init /\ [][NextDecode]_vars

-----------------------------------------------------------------------------
(* What the claims speak of.  In an action formula the unprimed variables  *)
(* are the Vm before the call and the primed ones the Vm after it.         *)

(* a call of Vm::step, by the client or by the loop of Vm::run *)
StepCall == Step \/ RunLoop

(* the instruction the next step decodes *)
NextInstr == DecodeNext(Cur)

Decodes(op) == NextInstr.tag = "Ok" /\ NextInstr.instr.op = op

(* its i-th operand, and the value read from a source operand *)
Operand(i) == NextInstr.instr.args[i]

Value(i) == ReadSrc(Cur, Operand(i))

StepReturned(r) == last = Called("step", 0, r)

StepReturns(r) == last' = Called("step", 0, r)

(* C1: a step that executes Add, Mult or Not returns Running and leaves in  *)
(* the destination register (a + b) mod 32768, (a * b) mod 32768, or the   *)
(* complement of a with bit 15 cleared, always a value of 0..32767, for    *)
(* all values a and b of the source operands, 32767 + 5 = 4 included.      *)
C1_ArithmeticIsMasked ==
    [][ (last'.call = "step" /\ StepCall) =>
          /\ Decodes("Add") =>
               /\ StepReturns(Ok("Running"))
               /\ registers'[Operand(1).val] = (Value(2) + Value(3)) % 32768
          /\ Decodes("Mult") =>
               /\ StepReturns(Ok("Running"))
               /\ registers'[Operand(1).val]
                    = ((Value(2) % 32768) * (Value(3) % 32768)) % 32768
          /\ Decodes("Not") =>
               /\ StepReturns(Ok("Running"))
               /\ registers'[Operand(1).val] = (65535 - Value(2)) % 32768
          /\ (Decodes("Add") \/ Decodes("Mult") \/ Decodes("Not")) =>
               registers'[Operand(1).val] \in 0..32767
      ]_vars

(* add r0 r0 5 with r0 = 32767 has stored 4 *)
C1_Witness ==
    /\ StepReturned(Ok("Running"))
    /\ MemGet(memory, 0) = 9 /\ MemGet(memory, 1) = 32768
    /\ MemGet(memory, 2) = 32768 /\ MemGet(memory, 3) = 5
    /\ ip = 4
    /\ registers[0] = 4
    /\ edits = 1

(* C2: a step that executes Ret with the stack empty returns Halted, and a  *)
(* step that executes Pop with the stack empty fails with StackUnderflow,  *)
(* whatever the registers and the memory hold.                             *)
C2_RetHaltsPopUnderflows ==
    [][ (last'.call = "step" /\ StepCall) =>
          /\ (Decodes("Ret") /\ stack = << >>) => StepReturns(Ok("Halted"))
          /\ (Decodes("Pop") /\ stack = << >>) =>
               StepReturns(Err("StackUnderflow", 0))
      ]_vars

(* pop r7 has failed on the empty stack, with r0 set by the client *)
C2_Witness ==
    /\ StepReturned(Err("StackUnderflow", 0))
    /\ MemGet(memory, ip) = 3 /\ MemGet(memory, ip + 1) = 32775
    /\ stack = << >>
    /\ registers[0] = 65535

(* C3: operand decoding is total over the 65536 words: w < 32768 is         *)
(* Immediate(w) as a source and InvalidDstOperand(w) as a destination;     *)
(* w in 32768..32775 is Register(w - 32768) in both roles; any other w is  *)
(* InvalidSrcOperand(w) as a source and InvalidDstOperand(w) as a          *)
(* destination.                                                            *)
C3_OperandDecodeTotal ==
    LET w == MemGet(memory, 0)
    IN  /\ last.call = "SrcOperand::decode_at" =>
             last.ret = IF w < 32768
                        THEN [tag |-> "Ok", val |-> "Immediate", arg |-> w]
                        ELSE IF w <= 32775
                        THEN [tag |-> "Ok", val |-> "Register", arg |-> w - 32768]
                        ELSE Err("InvalidSrcOperand", w)
        /\ last.call = "DstOperand::decode_at" =>
             last.ret = IF w >= 32768 /\ w <= 32775
                        THEN [tag |-> "Ok", val |-> "Register", arg |-> w - 32768]
                        ELSE Err("InvalidDstOperand", w)

(* the word 32775 has decoded as r7, as a source *)
C3_Witness ==
    /\ MemGet(memory, 0) = 32775
    /\ last = Called("SrcOperand::decode_at", 0,
                     [tag |-> "Ok", val |-> "Register", arg |-> 7])

(* the operands of the opcode at a before the i-th all decode *)
EarlierOperandsDecode(a, i) ==
    \A j \in 1..(i - 1) :
        OperandDecodeAt(OpTable[MemGet(memory, a) + 1].kinds[j],
                        memory, MEMORY_LEN, a + j).tag = "Ok"

(* C4: decode at a fails with InvalidIp(a) when a is outside the memory,    *)
(* with IllegalInstruction(w) when the word w at a is not in 0..21, and    *)
(* with InvalidIp(a + i) when the i-th operand of a recognised opcode lies *)
(* outside the memory and the operands before it decode; it never changes  *)
(* the memory.                                                             *)
C4_DecodeFailures ==
    [][ \A a \in DecodeAddrs : DecodeAt(a) =>
          /\ memory' = memory
          /\ (a < 0 \/ a >= 32768) => last'.ret = Err("InvalidIp", a)
          /\ (a >= 0 /\ a < 32768 /\ MemGet(memory, a) > 21) =>
               last'.ret = Err("IllegalInstruction", MemGet(memory, a))
          /\ (a >= 0 /\ a < 32768 /\ MemGet(memory, a) <= 21) =>
               \A i \in 1..Len(OpTable[MemGet(memory, a) + 1].kinds) :
                   (a + i >= 32768 /\ EarlierOperandsDecode(a, i)) =>
                       last'.ret = Err("InvalidIp", a + i)
      ]_vars

(* add r0 1 ... at 32765: the third operand would be at 32768 *)
C4_Witness ==
    /\ MemGet(memory, 32765) = 9
    /\ MemGet(memory, 32766) = 32768
    /\ last = Called("decode", 32765, Err("InvalidIp", 32768))

(* C5: whenever step returns an error, the instruction pointer, the         *)
(* registers, the stack and the memory are as they were before the call.   *)
C5_ErrorLeavesVmUnchanged ==
    [][ (last'.call = "step" /\ StepCall /\ last'.ret.tag = "Err") =>
          UNCHANGED vmVars
      ]_vars

(* in r0 has failed at the end of the input, after r0 was set *)
C5_Witness ==
    /\ StepReturned(Err("IOError", 0))
    /\ MemGet(memory, ip) = 20
    /\ registers[0] = 32767

(* C6: a step that executes Halt returns Halted and changes neither the Vm  *)
(* nor the output; a step that follows a step that returned Halted, with   *)
(* no mutation of the Vm in between, returns Halted again; and Vm::run     *)
(* returns Ok exactly when a step of its loop returns Halted.              *)
C6_HaltIsTerminal ==
    [][ (last'.call = "step" /\ StepCall) =>
          /\ Decodes("Halt") =>
               /\ StepReturns(Ok("Halted"))
               /\ UNCHANGED <<vmVars, output>>
          /\ StepReturned(Ok("Halted")) => StepReturns(Ok("Halted"))
          /\ RunLoop =>
               /\ (pc' = "done" /\ runRet' = Ok("()")) <=> StepReturns(Ok("Halted"))
               /\ StepReturns(Ok("Running")) => (pc' = "run" /\ runRet' = NoResult)
      ]_vars

(* run has returned Ok at the Halt of out 'H'; out 'i'; halt *)
C6_Witness ==
    /\ pc = "done" /\ runRet = Ok("()")
    /\ StepReturned(Ok("Halted"))
    /\ MemGet(memory, ip) = 0 /\ ip = 4
    /\ output = <<72, 105>>

(* the stack is as the innermost live Call left it: its return address on  *)
(* top of the stack it found                                               *)
Balanced ==
    /\ frames # << >>
    /\ Len(stack) = Len(frames[Len(frames)].base) + 1

(* C7: a step that executes Call at a pushes a + 2 and sets ip to the value *)
(* of its operand; a step that executes Ret on a stack that is not empty   *)
(* pops the top word and sets ip to it; so a Ret that finds the stack as   *)
(* the Call left it resumes at a + 2 with the stack as before the Call.    *)
C7_CallRet ==
    [][ (last'.call = "step" /\ StepCall) =>
          /\ Decodes("Call") =>
               /\ StepReturns(Ok("Running"))
               /\ stack' = Append(stack, ip + 2)
               /\ ip' = Value(1)
          /\ (Decodes("Ret") /\ stack # << >>) =>
               /\ StepReturns(Ok("Running"))
               /\ ip' = stack[Len(stack)]
               /\ stack' = SubSeq(stack, 1, Len(stack) - 1)
          /\ (Decodes("Ret") /\ Balanced) =>
               /\ ip' = frames[Len(frames)].at + 2
               /\ stack' = frames[Len(frames)].base
      ]_vars

(* call 4; ...; 4: push 1; pop r0; ret has returned to 2, on a stack the   *)
(* client had pushed 40000 on before the call                              *)
C7_Witness ==
    /\ StepReturned(Ok("Running"))
    /\ MemGet(memory, 0) = 17 /\ MemGet(memory, 1) = 4 /\ MemGet(memory, 8) = 18
    /\ ip = 2
    /\ registers[0] = 1
    /\ stack = <<40000>>

(* C8: a step that executes Mod returns Running or an Error value, for all *)
(* operand values, and when it returns Running the destination register   *)
(* holds the remainder of lhs divided by rhs.                              *)
C8_ModYieldsResult ==
    [][ (last'.call = "step" /\ StepCall /\ Decodes("Mod")) =>
          /\ last'.ret.tag \in {"Ok", "Err"}
          /\ StepReturns(Ok("Running")) =>
               registers'[Operand(1).val] = Value(2) % Value(3)
      ]_vars

(* C9: Rmem with an address a < 32768 stores memory[a] in its destination, *)
(* Wmem with an address a < 32768 sets memory[a] to its source value and   *)
(* changes no other word, and either fails with InvalidAddress(a) when     *)
(* a >= 32768.                                                             *)
C9_IndirectAccess ==
    [][ (last'.call = "step" /\ StepCall) =>
          /\ Decodes("Rmem") =>
               IF Value(2) < 32768
               THEN /\ StepReturns(Ok("Running"))
                    /\ registers'[Operand(1).val] = MemGet(memory, Value(2))
               ELSE StepReturns(Err("InvalidAddress", Value(2)))
          /\ Decodes("Wmem") =>
               IF Value(1) < 32768
               THEN /\ StepReturns(Ok("Running"))
                    /\ MemGet(memory', Value(1)) = Value(2)
                    /\ \A x \in ((DOMAIN memory) \cup (DOMAIN memory')) \ {Value(1)} :
                           MemGet(memory', x) = MemGet(memory, x)
               ELSE /\ StepReturns(Err("InvalidAddress", Value(1)))
                    /\ memory' = memory
      ]_vars

(* wmem 32767 r0 has written 65535 at the last address *)
C9_Witness ==
    /\ StepReturned(Ok("Running"))
    /\ MemGet(memory, 0) = 16 /\ MemGet(memory, 1) = 32767 /\ ip = 3
    /\ registers[0] = 65535
    /\ MemGet(memory, 32767) = 65535

(* C10 as stated: Out with a value v <= 255 appends the byte v to the       *)
(* output and advances ip by 2; with v > 255 it fails with                 *)
(* InvalidIOWord(v) and writes nothing.                                    *)
C10_OutAlwaysWrites ==
    [][ (last'.call = "step" /\ StepCall /\ Decodes("Out")) =>
          IF Value(1) <= 255
          THEN /\ StepReturns(Ok("Running"))
               /\ output' = Append(output, Value(1))
               /\ ip' = ip + 2
          ELSE /\ StepReturns(Err("InvalidIOWord", Value(1)))
               /\ output' = output
      ]_vars

(* C10, amended: Out with a value v <= 255 appends the byte v to the output *)
(* and advances ip by 2, unless the writer fails, and then the step fails  *)
(* with IOError, nothing is appended and ip stays; with v > 255 it fails   *)
(* with InvalidIOWord(v) and writes nothing.                               *)
C10_OutWritesOrFails ==
    [][ (last'.call = "step" /\ StepCall /\ Decodes("Out")) =>
          IF Value(1) <= 255
          THEN \/ /\ StepReturns(Ok("Running"))
                  /\ output' = Append(output, Value(1))
                  /\ ip' = ip + 2
               \/ /\ StepReturns(Err("IOError", 0))
                  /\ output' = output
                  /\ ip' = ip
          ELSE /\ StepReturns(Err("InvalidIOWord", Value(1)))
               /\ output' = output
      ]_vars

(* out 255 has appended the byte 255 *)
C10_Witness ==
    /\ StepReturned(Ok("Running"))
    /\ MemGet(memory, 0) = 19 /\ MemGet(memory, 1) = 255
    /\ ip = 2
    /\ output = <<255>>

(* C11: a step that executes In skips the carriage returns at the front of *)
(* the input and stores the first other byte in its destination register:  *)
(* that byte and the carriage returns before it are consumed, and no other *)
(* byte; the byte stored is never 13; when the input ends before such a    *)
(* byte is found, the step fails with IOError.                             *)
C11_InSkipsCarriageReturns ==
    [][ (last'.call = "step" /\ StepCall /\ Decodes("In")) =>
          \E k \in 0..Len(input) :
            /\ \A i \in 1..k : input[i] = CARRIAGE_RETURN
            /\ IF k < Len(input)
               THEN /\ input[k + 1] # CARRIAGE_RETURN
                    /\ StepReturns(Ok("Running"))
                    /\ registers' =
                         [registers EXCEPT ![Operand(1).val] = input[k + 1]]
                    /\ registers'[Operand(1).val] # CARRIAGE_RETURN
                    /\ input' = SubSeq(input, k + 2, Len(input))
               ELSE StepReturns(Err("IOError", 0))
      ]_vars

(* in r0 has read 65 from the input 13, 65 and consumed both bytes *)
C11_Witness ==
    /\ StepReturned(Ok("Running"))
    /\ MemGet(memory, 0) = 20 /\ MemGet(memory, 1) = 32768
    /\ ip = 2
    /\ registers[0] = 65
    /\ input = << >>
    /\ edits = 2

-----------------------------------------------------------------------------
(* Vm::load on a Vm that is in use *)

(* the loads after the first *)
MaxReloads == 1

(* programs that differ in length: empty, short, one that writes the last  *)
(* word of the memory, as long as the memory, and one word longer          *)
LoadPrograms ==
    { [pad |-> 0, words |-> w] :
        w \in { << >>, <<21>>, <<16, 32767, 9>>, <<16, 1, 9>>,
                <<21, 21, 21, 21, 0>>, <<6, 5, 0, 0, 0, 7>> } }
    \cup { [pad |-> MEMORY_LEN - 2, words |-> <<7, 7>>],
           [pad |-> MEMORY_LEN - 1, words |-> <<21>>],
           [pad |-> MEMORY_LEN, words |-> <<21>>] }

(* Vm::load, called again *)
Reload(program) ==
    /\ pc = "idle" /\ ~Crashed /\ Loaded
    /\ loads <= MaxReloads
    /\ LET t == VmLoad(Cur, program)
       IN  /\ memory' = t.memory
           /\ last' = Called("load", 0, t.ret)
    /\ loads' = loads + 1
    /\ UNCHANGED <<registers, ip, stack, input, output, pc, runRet, edits,
                   frames,
                   tracer, hist, disas>>

NextLoad ==
    \/ \E program \in LoadPrograms : Load(program)
    \/ \E program \in LoadPrograms : Reload(program)
    \/ Step

SpecLoad == Init /\ [][NextLoad]_vars

(* C12: Vm::load of a program of n > 32768 words fails with                *)
(* ProgramTooLarge(n) and leaves the memory as it was; with n <= 32768 it  *)
(* returns Ok, the first n words of the memory are the program and all     *)
(* the words after them are zero, whatever the memory held before; and     *)
(* every address of the memory is below 32768 in every state.              *)
C12_LoadReplacesMemory ==
    /\ [][ \A p \in LoadPrograms :
             (Load(p) \/ Reload(p)) =>
               LET n == p.pad + Len(p.words)
               IN  IF n > 32768
                   THEN /\ last'.ret = Err("ProgramTooLarge", n)
                        /\ memory' = memory
                   ELSE /\ last'.ret = Ok("()")
                        /\ \A i \in 1..Len(p.words) :
                             MemGet(memory', p.pad + i - 1) = p.words[i]
                        /\ \A a \in DOMAIN memory' :
                             a >= p.pad /\ a < n
         ]_vars
    /\ [](\A a \in DOMAIN memory : a \in 0..32767 /\ memory[a] # 0)

(* the one-word program noop has been loaded over a memory in which a      *)
(* step of wmem 32767 9 had written the last word: that word is zero again *)
C12_Witness ==
    /\ loads = 2
    /\ last = Called("load", 0, Ok("()"))
    /\ ip = 3
    /\ MemGet(memory, 0) = 21
    /\ MemGet(memory, 32767) = 0
    /\ DOMAIN memory = {0}

-----------------------------------------------------------------------------
(* Programs that only write *)

(* the words from address a on are out b, ..., out b, halt, every b a      *)
(* literal of 0..255                                                       *)
RECURSIVE IsOutProgram(_, _)
IsOutProgram(mem, a) ==
    IF MemGet(mem, a) = 0 THEN TRUE
    ELSE IF MemGet(mem, a) = 19 /\ MemGet(mem, a + 1) <= 255
    THEN IsOutProgram(mem, a + 2)
    ELSE FALSE

(* the bytes such a program writes, in program order *)
RECURSIVE OutBytes(_, _)
OutBytes(mem, a) ==
    IF MemGet(mem, a) = 19
    THEN <<MemGet(mem, a + 1)>> \o OutBytes(mem, a + 2)
    ELSE << >>

(* C13 as stated: once a program out b1, ..., out bk, halt is loaded and   *)
(* run, the output is exactly b1, ..., bk in that order, run has returned  *)
(* Ok, and no turn of the loop has read the input.                         *)
C13_RunWritesAllBytes ==
    /\ [](pc = "done" /\ IsOutProgram(memory, 0) =>
            /\ runRet = Ok("()")
            /\ output = OutBytes(memory, 0))
    /\ [][ (RunLoop /\ IsOutProgram(memory, 0)) => input' = input ]_vars

(* C13, amended: such a run writes b1, ..., bk in that order and returns   *)
(* Ok, unless a write to the sink fails: then run returns IOError and the  *)
(* output is the bytes written before the failure, a proper prefix of      *)
(* b1, ..., bk.  No turn of the loop reads the input.                      *)
C13_RunWritesUntilFailure ==
    /\ [](pc = "done" /\ IsOutProgram(memory, 0) =>
            \/ /\ runRet = Ok("()")
               /\ output = OutBytes(memory, 0)
            \/ /\ runRet = Err("IOError", 0)
               /\ Len(output) < Len(OutBytes(memory, 0))
               /\ output = SubSeq(OutBytes(memory, 0), 1, Len(output)))
    /\ [][ (RunLoop /\ IsOutProgram(memory, 0)) => input' = input ]_vars

(* out 'H'; out 'i'; halt has run to its end with a byte of input waiting: *)
(* the output is H, i and the byte is still unread                         *)
C13_Witness ==
    /\ pc = "done"
    /\ runRet = Ok("()")
    /\ MemGet(memory, 1) = 72 /\ MemGet(memory, 3) = 105
    /\ output = <<72, 105>>
    /\ input = <<65>>

-----------------------------------------------------------------------------
(* The command language of the tracer (bin/tracevm.rs).  A line is the     *)
(* sequence of its words, as split_whitespace gives them, and a word the   *)
(* sequence of its characters.                                             *)

Digit(c) ==
    CASE c = "0" -> 0 [] c = "1" -> 1 [] c = "2" -> 2 [] c = "3" -> 3
      [] c = "4" -> 4 [] c = "5" -> 5 [] c = "6" -> 6 [] c = "7" -> 7
      [] c = "8" -> 8 [] c = "9" -> 9 [] OTHER -> -1

(* the number written by a word of digits *)
RECURSIVE DigitsValue(_)
DigitsValue(word) ==
    IF word = << >> THEN 0
    ELSE DigitsValue(SubSeq(word, 1, Len(word) - 1)) * 10
         + Digit(word[Len(word)])

(* str::parse::<usize>: an optional + and one digit at least; the words    *)
(* of the model are too short to overflow                                  *)
ParseUsize(word) ==
    LET digits == IF word # << >> /\ word[1] = "+" THEN Tail(word) ELSE word
    IN  IF digits = << >> \/ \E i \in DOMAIN digits : Digit(digits[i]) < 0
        THEN Err("ParseIntError", 0)
        ELSE Ok(DigitsValue(digits))

(* str::parse::<u16> *)
ParseU16(word) ==
    LET n == ParseUsize(word)
    IN  IF n.tag = "Ok" /\ n.val >= U16_MODULUS
        THEN Err("ParseIntError", 0)
        ELSE n

(* Tracer::ptr_or_label: every result it can give.  find takes the first   *)
(* entry with the name in the iteration order of the HashMap, any order.   *)
PtrOrLabel(labels, word) ==
    IF ParseUsize(word).tag = "Ok" THEN { ParseUsize(word) }
    ELSE IF \E l \in labels : l.name = word
    THEN { Ok(l.ptr) : l \in { k \in labels : k.name = word } }
    ELSE { Err("UnknownLabel", 0) }

(* RegisterIndex that takes any digit after the r *)
RegisterIndexAnyDigit(word) ==
    IF Len(word) = 2 /\ word[1] = "r" /\ Digit(word[2]) \in 0..9
    THEN Ok(Digit(word[2]))
    ELSE Err("UnknownRegister", 0)

(* the match on the register name in get_command *)
RegisterIndex(word) ==
    IF Len(word) = 2 /\ word[1] = "r" /\ Digit(word[2]) \in 0..7
    THEN Ok(Digit(word[2]))
    ELSE Err("UnknownRegister", 0)

(* a TracerCommand: its variant and its fields (0, None or the empty word  *)
(* for those the variant does not have)                                    *)
TracerCommand(kind, ptr, val, label, til) ==
    [kind |-> kind, ptr |-> ptr, val |-> val, label |-> label, til |-> til]

Plain(kind) == TracerCommand(kind, 0, 0, << >>, None)

(* what get_command returns: Ok(cmd) or Err(e) *)
Parsed(cmd) == [ret |-> Ok("()"), cmd |-> cmd]

Failed(e) == [ret |-> e, cmd |-> Plain("")]

UnknownCommand == Failed(Err("UnknownCommand", 0))

(* Tracer::get_command on a line read from stdin: every result it can give *)
GetCommand(labels, line) ==
    LET word == line[1]
        Has(i) == Len(line) >= i
        val(i) == IF Has(i) THEN ParseU16(line[i]) ELSE Err("None", 0)
        \* an argument that goes through ptr_or_label, and `?` on its result
        ptrs == PtrOrLabel(labels, line[2])
        Try(r, got) == IF r.tag = "Ok" THEN got ELSE Failed(r)
    IN  IF line = << >> THEN { Parsed(Plain("Step")) }
        ELSE IF word \in { <<"s">>, <<"s", "t", "e", "p">> }
        THEN { Parsed(Plain("Step")) }
        ELSE IF word \in { <<"c">>, <<"c", "o", "n", "t", "i", "n", "u", "e">> }
        THEN IF ~Has(2) THEN { Parsed(Plain("Continue")) }
             ELSE { Try(r,
                    Parsed(TracerCommand("Continue", 0, 0, << >>,
                                         Some(r.val)))) : r \in ptrs }
        ELSE IF word \in { <<"l">>, <<"l", "a", "b", "e", "l">>,
                           <<"l", "b", "l">> }
        THEN IF ~Has(2) THEN { UnknownCommand }
             ELSE { Try(r,
                    IF ~Has(3) THEN UnknownCommand
                    ELSE Parsed(TracerCommand("SetLabel", r.val, 0, line[3],
                                              None))) : r \in ptrs }
        ELSE IF word \in { <<"u">>, <<"u", "n", "l", "a", "b", "e", "l">> }
        THEN IF ~Has(2) THEN { UnknownCommand }
             ELSE { Parsed(TracerCommand("ClearLabel", 0, 0, line[2], None)) }
        ELSE IF word \in { <<"b">>, <<"b", "r", "e", "a", "k">> }
        THEN IF ~Has(2) THEN { UnknownCommand }
             ELSE { Try(r,
                    Parsed(TracerCommand("SetBreakpoint", r.val, 0, << >>,
                                         None))) : r \in ptrs }
        ELSE IF word \in { <<"r">>, <<"c", "l", "e", "a", "r">> }
        THEN IF ~Has(2) THEN { UnknownCommand }
             ELSE { Try(r,
                    Parsed(TracerCommand("ClearBreakpoint", r.val, 0, << >>,
                                         None))) : r \in ptrs }
        ELSE IF word = <<"p", "u", "s", "h">>
        THEN IF val(2).tag # "Ok" THEN { UnknownCommand }
             ELSE { Parsed(TracerCommand("Push", 0, val(2).val, << >>, None)) }
        ELSE IF word = <<"p", "o", "p">>
        THEN { Parsed(Plain("Pop")) }
        ELSE IF word = <<"p", "o", "k", "e">>
        THEN IF ~Has(2) THEN { UnknownCommand }
             ELSE { Try(r,
                    IF val(3).tag # "Ok" THEN UnknownCommand
                    ELSE Parsed(TracerCommand("Poke", r.val, val(3).val, << >>,
                                              None))) : r \in ptrs }
        ELSE IF word \in { <<"t">>, <<"s", "e", "t">> }
        THEN IF ~Has(2) THEN { UnknownCommand }
             ELSE IF RegisterIndex(line[2]).tag # "Ok"
             THEN { Failed(RegisterIndex(line[2])) }
             ELSE IF val(3).tag # "Ok" THEN { UnknownCommand }
             ELSE { Parsed(TracerCommand("SetReg", RegisterIndex(line[2]).val,
                                         val(3).val, << >>, None)) }
        ELSE IF word \in { <<"a">>, <<"s", "t", "a", "t", "u", "s">> }
        THEN { Parsed(Plain("Status")) }
        ELSE IF word \in { <<"m">>, <<"r", "e", "m", "a", "p">> }
        THEN { Parsed(Plain("Remap")) }
        ELSE IF word \in { <<"h">>, <<"h", "e", "l", "p">> }
        THEN { Parsed(Plain("Help")) }
        ELSE IF word \in { <<"q">>, <<"q", "u", "i", "t">> }
        THEN { Parsed(Plain("Quit")) }
        ELSE { UnknownCommand }

-----------------------------------------------------------------------------
(* The tracer (bin/tracevm.rs): main loads the image into a Vm, builds the *)
(* Tracer around it and calls Tracer::run.  The Vm reads from in_cursor,   *)
(* here input (the bytes after the cursor's position), and writes to       *)
(* out_buf, here output; writing to a Vec never fails.                     *)

(* the commands one session reads *)
MaxCommands == 2

(* the count of executed instructions the history keeps *)
MaxCount == 2

(* the bytes stdout receives in one session *)
MaxTerminal == 3

LINE_FEED == 10

(* PumpOutput that writes out_buf to stdout and keeps it *)
PumpOutputKeepsBuffer(out, terminal) ==
    IF out # << >> /\ out[Len(out)] = LINE_FEED
    THEN [output |-> out, terminal |-> terminal \o out]
    ELSE [output |-> out, terminal |-> terminal]

(* Tracer::pump_output: out_buf goes to stdout once it ends a line *)
PumpOutput(out, terminal) ==
    IF out # << >> /\ out[Len(out)] = LINE_FEED
    THEN [output |-> << >>, terminal |-> terminal \o out]
    ELSE [output |-> out, terminal |-> terminal]

(* the condition of the while loop of Continue: til.unwrap_or(usize::MAX), *)
(* and ip is always below usize::MAX                                       *)
BelowTarget(at, til) == til.tag = "None" \/ at < til.val

(* AfterStep without the breakpoint test of Continue *)
AfterStepPassesBreakpoints(ret, at, tr) ==
    IF ret.tag = "Err" THEN "exit"
    ELSE IF tr.single_step THEN "prompt"
    ELSE IF ret = Ok("Halted") THEN "prompt"
    ELSE "continue"

(* where do_cmd goes once Tracer::step has returned ret: an error leaves   *)
(* do_cmd and Tracer::run through `?`; Step returns WaitCommand; Continue  *)
(* breaks on Halted, returns on a breakpoint, and loops otherwise          *)
AfterStep(ret, at, tr) ==
    IF ret.tag = "Err" THEN "exit"
    ELSE IF tr.single_step THEN "prompt"
    ELSE IF ret = Ok("Halted") THEN "prompt"
    ELSE IF at \in tr.breakpoints THEN "prompt"
    ELSE "continue"

Count(n) == IF n < MaxCount THEN n + 1 ELSE MaxCount

(* Tracer::step returns: t is the Vm, the cursor and out_buf at that       *)
(* point, t.ret what vm.step returned (Running if it was not called),      *)
(* executed whether it was called, tr the Tracer, h the history so far     *)
Returned(t, executed, tr, h) ==
    LET pumped == IF t.ret.tag = "Ok" /\ executed
                  THEN PumpOutput(t.output, tr.terminal)
                  ELSE [output |-> t.output, terminal |-> tr.terminal]
    IN  /\ Len(t.stack) <= MaxStack
        /\ Len(pumped.output) <= MaxOutput
        /\ Len(pumped.terminal) <= MaxTerminal
        /\ memory' = t.memory
        /\ registers' = t.registers
        /\ ip' = t.ip
        /\ stack' = t.stack
        /\ input' = t.input
        /\ output' = pumped.output
        /\ tracer' = [tr EXCEPT !.terminal = pumped.terminal]
        /\ last' = Called(IF executed THEN "step" ELSE "abort", 0, t.ret)
        /\ pc' = AfterStep(t.ret, t.ip, tr)
        /\ UNCHANGED disas
        /\ hist' = IF executed /\ t.ret.tag = "Ok"
                   THEN [h EXCEPT !.ran = Count(@),
                                  !.since = IF @ < 0 THEN @ ELSE Count(@)]
                   ELSE h
        /\ UNCHANGED <<runRet, loads, edits, frames>>

(* Tracer::step up to the read of ensure_input: a decode error returns at  *)
(* once; an In with the cursor at the end of its buffer clears the buffer  *)
(* and waits for a line; everything else goes on to vm.step                *)
BeginStep(tr, h) ==
    LET d == DecodeNext(Cur)
    IN  IF d.tag = "Err" THEN Returned(Return(Cur, d), FALSE, tr, h)
        ELSE IF d.instr.op = "In" /\ input = << >>
        THEN /\ pc' = "input"
             /\ tracer' = tr
             /\ last' = Called("ensure_input", 0, NoResult)
             /\ UNCHANGED disas
             /\ hist' = h
             /\ UNCHANGED <<vmVars, input, output, runRet, loads, edits,
                            frames>>
        ELSE Returned(VmStep(Cur, TRUE), TRUE, tr, h)

(* main: Tracer::new(vm, ...) after vm.load(&prog)?, then tracer.run()     *)
TracerNew(autolabel) ==
    /\ pc = "idle" /\ ~Crashed
    /\ last.call = "load" /\ last.ret.tag = "Ok"
    /\ pc' = "prompt"
    /\ tracer' = [NoTracer EXCEPT
                    !.autolabel = autolabel,
                    !.map = ImageMapNew(memory, MEMORY_LEN,
                                        [autolabel |-> autolabel,
                                         line_addrs |-> FALSE,
                                         initial_labels |->
                                           [tag |-> "None", val |-> {}]])]
    /\ UNCHANGED disas
    /\ hist' = NoHistory
    /\ last' = Called("new", 0, NoResult)
    /\ UNCHANGED <<vmVars, input, output, runRet, loads, edits, frames>>

(* RegistersMut that stores the value with bit 15 cleared *)
RegistersMutMasked(regs, reg, val) == [regs EXCEPT ![reg] = val % INDIRECT_BIT]

(* self.vm.registers_mut()[reg] = val *)
RegistersMut(regs, reg, val) == [regs EXCEPT ![reg] = val]

(* TracerRemap that sweeps without the label table *)
TracerRemapUnseeded(s, tr) ==
    [tr EXCEPT !.map = ImageMapNew(s.memory, MEMORY_LEN,
                                   [autolabel |-> tr.autolabel,
                                    line_addrs |-> FALSE,
                                    initial_labels |->
                                      [tag |-> "None", val |-> {}]])]

(* Tracer::remap *)
TracerRemap(s, tr) ==
    [tr EXCEPT !.map = ImageMapNew(s.memory, MEMORY_LEN,
                                   [autolabel |-> tr.autolabel,
                                    line_addrs |-> FALSE,
                                    initial_labels |->
                                      [tag |-> "Some", val |-> tr.labels]])]

(* the arms of do_cmd that return WaitCommand at once: every outcome, as   *)
(* the Vm and the Tracer after it.  ClearLabel removes the entry that find *)
(* meets first.                                                            *)
DoCmd(s, tr, cmd) ==
    LET same == [vm |-> s, tr |-> tr]
    IN  CASE cmd.kind = "SetLabel" ->
               { [same EXCEPT !.tr.labels =
                    { l \in tr.labels : l.ptr # cmd.ptr }
                    \cup { [ptr |-> cmd.ptr, name |-> cmd.label] }] }
          [] cmd.kind = "ClearLabel" ->
               IF \E l \in tr.labels : l.name = cmd.label
               THEN { [same EXCEPT !.tr.labels = tr.labels \ {l}] :
                        l \in { k \in tr.labels : k.name = cmd.label } }
               ELSE { same }
          [] cmd.kind = "SetBreakpoint" ->
               { [same EXCEPT !.tr.breakpoints = @ \cup {cmd.ptr}] }
          [] cmd.kind = "ClearBreakpoint" ->
               { [same EXCEPT !.tr.breakpoints = @ \ {cmd.ptr}] }
          [] cmd.kind = "Push" ->
               { [same EXCEPT !.vm.stack = Append(@, cmd.val)] }
          [] cmd.kind = "Pop" ->
               IF s.stack = << >> THEN { same }
               ELSE { [same EXCEPT !.vm.stack =
                         SubSeq(@, 1, Len(@) - 1)] }
          [] cmd.kind = "Poke" ->
               IF InSlice(MEMORY_LEN, cmd.ptr)
               THEN { [same EXCEPT !.vm.memory =
                         MemSet(@, cmd.ptr, cmd.val)] }
               ELSE { same }
          [] cmd.kind = "SetReg" ->
               { [same EXCEPT !.vm.registers =
                         RegistersMut(@, cmd.ptr, cmd.val)] }
          [] cmd.kind = "Remap" ->
               { [same EXCEPT !.tr = TracerRemap(s, tr)] }
          [] OTHER -> { same }

(* one turn of the loop of Tracer::run: a line is read and parsed; an      *)
(* error of get_command is printed; a command goes to do_cmd.  Step calls  *)
(* Tracer::step(true), Continue enters its loop, Quit ends the session.    *)
Command(line) ==
    /\ pc = "prompt" /\ ~Crashed
    /\ hist.cmds < MaxCommands
    /\ \E got \in GetCommand(tracer.labels, line) :
         LET h == [hist EXCEPT !.cmds = @ + 1]
             run == [h EXCEPT !.ran = 0, !.since = -1]
             cmd == got.cmd
         IN  IF got.ret.tag = "Err"
             THEN /\ last' = Called("get_command", 0, got.ret)
                  /\ UNCHANGED disas
                  /\ hist' = h
                  /\ UNCHANGED <<vmVars, input, output, pc, runRet, loads,
                                 edits, frames, tracer>>
             ELSE IF cmd.kind = "Step"
             THEN BeginStep([tracer EXCEPT !.single_step = TRUE], run)
             ELSE IF cmd.kind = "Continue"
             THEN /\ pc' = "continue"
                  /\ tracer' = [tracer EXCEPT !.til = cmd.til,
                                              !.single_step = FALSE]
                  /\ last' = Called("Continue", 0, NoResult)
                  /\ UNCHANGED disas
                  /\ hist' = run
                  /\ UNCHANGED <<vmVars, input, output, runRet, loads,
                                 edits, frames>>
             ELSE \E after \in DoCmd(Cur, tracer, cmd) :
                  /\ Len(after.vm.stack) <= MaxStack
                  /\ memory' = after.vm.memory
                  /\ registers' = after.vm.registers
                  /\ stack' = after.vm.stack
                  /\ tracer' = after.tr
                  /\ pc' = IF cmd.kind = "Quit" THEN "quit" ELSE "prompt"
                  /\ last' = Called(cmd.kind, 0, Ok("()"))
                  /\ UNCHANGED disas
                  /\ hist' = h
                  /\ UNCHANGED <<ip, input, output, runRet, loads, edits,
                                 frames>>

(* ContinueLoop that tests the breakpoints before it steps *)
ContinueLoopTestsFirst ==
    /\ pc = "continue" /\ ~Crashed
    /\ IF ~BelowTarget(ip, tracer.til) \/ ip \in tracer.breakpoints
       THEN /\ pc' = "prompt"
            /\ last' = Called("Continue", 0, Ok("WaitCommand"))
            /\ UNCHANGED <<vmVars, input, output, runRet, loads, edits,
                           frames, tracer, hist, disas>>
       ELSE IF tracer.interrupt
       THEN /\ pc' = "prompt"
            /\ tracer' = [tracer EXCEPT !.interrupt = FALSE]
            /\ last' = Called("Continue", 0, Ok("Interrupted"))
            /\ UNCHANGED <<vmVars, input, output, runRet, loads, edits,
                           frames, hist, disas>>
       ELSE BeginStep(tracer, hist)

(* the head of the loop of Continue and, if it is passed, Tracer::step     *)
ContinueLoop ==
    /\ pc = "continue" /\ ~Crashed
    /\ IF ~BelowTarget(ip, tracer.til)
       THEN /\ pc' = "prompt"
            /\ last' = Called("Continue", 0, Ok("WaitCommand"))
            /\ UNCHANGED <<vmVars, input, output, runRet, loads, edits,
                           frames, tracer, hist, disas>>
       ELSE IF tracer.interrupt
       THEN /\ pc' = "prompt"
            /\ tracer' = [tracer EXCEPT !.interrupt = FALSE]
            /\ last' = Called("Continue", 0, Ok("Interrupted"))
            /\ UNCHANGED <<vmVars, input, output, runRet, loads, edits,
                           frames, hist, disas>>
       ELSE BeginStep(tracer, hist)

(* ReadLine that calls vm.step although the flag was set *)
ReadLineStepsAnyway(line) ==
    /\ pc = "input" /\ ~Crashed
    /\ LET s == [Cur EXCEPT !.input = line]
           tr == [tracer EXCEPT !.interrupt = FALSE]
       IN  IF line = << >>
           THEN Returned([s EXCEPT !.ret = Ok("Running")], FALSE, tr, hist)
           ELSE Returned(VmStep(s, TRUE), TRUE, tr, hist)

(* ensure_input from its read on, and the rest of Tracer::step: the line   *)
(* (empty at the end of stdin) fills the buffer; the flag is swapped; with *)
(* the flag set or nothing read Tracer::step returns Running and does not  *)
(* call vm.step                                                            *)
ReadLine(line) ==
    /\ pc = "input" /\ ~Crashed
    /\ LET s == [Cur EXCEPT !.input = line]
           tr == [tracer EXCEPT !.interrupt = FALSE]
       IN  IF tracer.interrupt \/ line = << >>
           THEN Returned([s EXCEPT !.ret = Ok("Running")], FALSE, tr, hist)
           ELSE Returned(VmStep(s, TRUE), TRUE, tr, hist)

(* SIGINT: the handler registered by register_sigint sets the flag *)
Interrupt ==
    /\ pc \in {"prompt", "continue", "input"} /\ ~Crashed
    /\ ~tracer.interrupt
    /\ tracer' = [tracer EXCEPT !.interrupt = TRUE]
    /\ UNCHANGED disas
    /\ hist' = IF pc # "prompt" /\ hist.since < 0
               THEN [hist EXCEPT !.since = 0]
               ELSE hist
    /\ UNCHANGED <<vmVars, input, output, last, pc, runRet, loads, edits,
                   frames>>

-----------------------------------------------------------------------------
(* The inputs of a tracer session *)

TracerPrograms ==
    { [pad |-> 0, words |-> w] :
        w \in { <<21, 21, 7, 1, 7, 21, 21, 21, 0>>, \* 2: jt 1 7; 7: noop; halt
                <<20, 32768, 19, 32768, 21, 0>>,   \* in r0; out r0; noop; halt
                <<21, 6, 0>>,                      \* noop; jmp 0
                <<19, 65, 19, 10, 19, 66, 0>>,     \* out A; out LF; out B; halt
                <<21, 3, 32768>>,                  \* noop; pop r0
                <<65535>>,                         \* no instruction
                <<19, 256>>,                       \* out 256
                <<2, 32776>>,                      \* push, no operand
                <<6, 32768>>,                      \* jmp r0
                <<16, 32768, 1>> } }               \* wmem r0 1

(* the lines typed at the ictrace> prompt *)
CommandLines ==
    { << >>,
      << <<"s">> >>,
      << <<"c">> >>,
      << <<"c">>, <<"3">> >>,
      << <<"c", "o", "n", "t", "i", "n", "u", "e">>, <<"g", "o">> >>,
      << <<"b">>, <<"7">> >>,
      << <<"b">>, <<"0">> >>,
      << <<"r">>, <<"7">> >>,
      << <<"l">>, <<"7">>, <<"g", "o">> >>,
      << <<"u">>, <<"g", "o">> >>,
      << <<"t">>, <<"r", "0">>, <<"4", "0", "0", "0", "0">> >>,
      << <<"s", "e", "t">>, <<"r", "7">>, <<"6", "5", "5", "3", "5">> >>,
      << <<"p", "u", "s", "h">>, <<"2">> >>,
      << <<"p", "o", "p">> >>,
      << <<"p", "o", "k", "e">>, <<"1">>, <<"0">> >>,
      << <<"a">> >>, << <<"m">> >>, << <<"h">> >>, << <<"q">> >>,
      << <<"z", "a", "p">> >>,
      << <<"b">> >>,
      << <<"b">>, <<"-", "1">> >>,
      << <<"p", "u", "s", "h">>, <<"x">> >>,
      << <<"p", "u", "s", "h">>, <<"6", "5", "5", "3", "6">> >>,
      << <<"p", "o", "k", "e">>, <<"1">> >>,
      << <<"t">>, <<"r", "8">>, <<"1">> >>,
      << <<"t">>, <<"r", "0">> >>,
      << <<"l">>, <<"7">> >> }

(* the lines typed at the input> prompt: none (the end of stdin), an empty *)
(* line, and a line with one character                                     *)
InputLines == { << >>, <<LINE_FEED>>, <<65, LINE_FEED>> }

(* the --autolabel option of the session: off, and on for the images in    *)
(* which the sweep finds a literal target, where it changes the map        *)
Autolabels ==
    {FALSE} \cup { TRUE : site \in ImageMapNew(memory, MEMORY_LEN,
                                               DefaultOpts).origins }

NextTracer ==
    \/ \E program \in TracerPrograms : Load(program)
    \/ \E autolabel \in Autolabels : TracerNew(autolabel)
    \/ \E line \in CommandLines : Command(line)
    \/ ContinueLoop
    \/ \E line \in InputLines : ReadLine(line)
    \/ Interrupt

SpecTracer == Init /\ [][NextTracer]_vars

-----------------------------------------------------------------------------
(* What the claims about the tracer speak of *)

(* a Continue is running: in its loop, or waiting for a line for an In *)
Continuing == pc \in {"continue", "input"} /\ ~tracer.single_step

(* a step of the session in which Tracer::step runs *)
TracerSteps ==
    \/ \E line \in CommandLines : Command(line)
    \/ ContinueLoop
    \/ \E line \in InputLines : ReadLine(line)

(* vm.step was called in this step of the session and returned r *)
Executed(r) == TracerSteps /\ last' = Called("step", 0, r)

(* C14 as stated: a continue with target T stops only when ip equals T,    *)
(* ip is a breakpoint address, the machine has halted or the interrupt     *)
(* flag was seen set; in every other state it executes another             *)
(* instruction (reading a line for an In first, if the buffer is empty).   *)
C14_ContinueStops ==
    /\ [][ (Continuing /\ ~Continuing') =>
             \/ tracer.til = Some(ip')
             \/ ip' \in tracer.breakpoints
             \/ last'.ret = Ok("Halted")
             \/ tracer.interrupt /\ ~tracer'.interrupt
         ]_vars
    /\ [][ (ContinueLoop /\ tracer.til # Some(ip) /\ ~tracer.interrupt) =>
             \/ last'.call = "step" /\ last'.ret.tag = "Ok"
             \/ pc' = "input"
         ]_vars

(* C15: in a continue, when the instruction just executed leaves ip at a   *)
(* breakpoint address, the continue returns to the prompt with ip there    *)
(* and nothing more executed, whether one instruction or several ran       *)
(* before and whether ip got there by a taken Jt or Jf or otherwise; so a  *)
(* continue that has executed an instruction is never still running with   *)
(* ip at a breakpoint.                                                     *)
C15_BreakpointStopsContinue ==
    /\ [][ (Continuing /\ Executed(Ok("Running"))
              /\ ip' \in tracer.breakpoints) =>
             pc' = "prompt" /\ tracer'.breakpoints = tracer.breakpoints
         ]_vars
    /\ [](Continuing /\ hist.ran > 0 => ip \notin tracer.breakpoints)

(* after b 7 and c, the continue has run noop, noop and the taken jt 1 7   *)
(* and is back at the prompt with ip = 7, the noop there not executed      *)
C15_Witness ==
    /\ pc = "prompt"
    /\ last = Called("step", 0, Ok("Running"))
    /\ ~tracer.single_step
    /\ MemGet(memory, 2) = 7 /\ MemGet(memory, 4) = 7
    /\ ip = 7
    /\ tracer.breakpoints = {7}
    /\ hist.ran = MaxCount

(* the errors of decoding and executing, I/O apart *)
EngineErrors ==
    { "IllegalInstruction", "InvalidSrcOperand", "InvalidDstOperand",
      "InvalidIp", "StackUnderflow", "InvalidAddress", "InvalidIOWord" }

(* C16 as stated: when the engine fails in a step or a continue with an    *)
(* error of decoding or executing, the tracer is at the prompt afterwards, *)
(* reading the next command: the session has not ended.                    *)
C16_ErrorKeepsSession ==
    [][ (TracerSteps /\ last'.call \in {"step", "abort"}
           /\ last'.ret.tag = "Err" /\ last'.ret.val \in EngineErrors) =>
          pc' = "prompt"
      ]_vars

(* C17 as stated: when the line for a pending In has been read with the    *)
(* interrupt flag raised, the In is not executed and the tracer is at the  *)
(* prompt, after a step and during a continue alike.                       *)
C17_InterruptAbortsIn ==
    [][ ((\E line \in InputLines : ReadLine(line)) /\ tracer.interrupt) =>
          last'.call = "abort" /\ pc' = "prompt"
      ]_vars

(* C18: when the line for a pending In has been read with the interrupt    *)
(* flag raised, ip is still at the In, the registers, the stack and the    *)
(* memory are as they were, out_buf too, and the whole line is in the      *)
(* buffer after the cursor: no byte of it has been consumed.               *)
C18_AbortLeavesVmAndInput ==
    [][ \A line \in InputLines :
          (ReadLine(line) /\ tracer.interrupt) =>
            /\ Decodes("In")
            /\ UNCHANGED <<vmVars, output>>
            /\ input' = line
      ]_vars

(* s on in r0 was interrupted at the input> prompt after A was typed: r0   *)
(* and ip are as before and the line A, line feed is unread                *)
C18_Witness ==
    /\ pc = "prompt"
    /\ last = Called("abort", 0, Ok("Running"))
    /\ MemGet(memory, 0) = 20 /\ ip = 0
    /\ registers[0] = 0
    /\ input = <<65, LINE_FEED>>
    /\ ~tracer.interrupt

(* C19 as stated: once the interrupt flag has been raised while a continue *)
(* runs, the continue executes one more instruction at most before the     *)
(* tracer is at the prompt again.  (An instruction is one step of the      *)
(* model: the flag is not read inside vm.step.)                            *)
C19_AtMostOneMore == [](~tracer.single_step => hist.since <= 1)

(* lines of CommandLines that do not parse or resolve, given the labels *)
Malformed(line, labels) ==
    \/ line \in { << <<"z", "a", "p">> >>,
                  << <<"b">> >>,
                  << <<"b">>, <<"-", "1">> >>,
                  << <<"p", "u", "s", "h">>, <<"x">> >>,
                  << <<"p", "u", "s", "h">>, <<"6", "5", "5", "3", "6">> >>,
                  << <<"p", "o", "k", "e">>, <<"1">> >>,
                  << <<"t">>, <<"r", "8">>, <<"1">> >>,
                  << <<"t">>, <<"r", "0">> >>,
                  << <<"l">>, <<"7">> >> }
    \/ /\ line = << <<"c", "o", "n", "t", "i", "n", "u", "e">>, <<"g", "o">> >>
       /\ \A l \in labels : l.name # <<"g", "o">>

(* C20: a line with an unknown command word, a missing or non-numeric      *)
(* argument, a number out of range, an unknown label or a register name    *)
(* outside r0..r7 changes neither ip, the registers, the stack, the        *)
(* memory, the breakpoints nor the labels; its error is reported and the   *)
(* tracer is at the prompt for the next command.                           *)
C20_BadCommandIsLocal ==
    [][ \A line \in CommandLines :
          (Malformed(line, tracer.labels) /\ Command(line)) =>
            /\ UNCHANGED <<vmVars, input, output, tracer>>
            /\ last'.call = "get_command"
            /\ last'.ret.val \in {"UnknownCommand", "UnknownLabel",
                                  "UnknownRegister"}
            /\ pc' = "prompt"
            /\ hist'.cmds = hist.cmds + 1
      ]_vars

(* after b 7, continue go has failed on the unknown label go *)
C20_Witness ==
    /\ pc = "prompt"
    /\ last = Called("get_command", 0, Err("UnknownLabel", 0))
    /\ tracer.breakpoints = {7}
    /\ tracer.labels = {}
    /\ hist.cmds = 2

(* the session of a Tracer is under way, or over *)
InSession == pc \in {"prompt", "continue", "input", "quit", "exit"}

(* C21: in the tracer the bytes written by Out reach stdout only when an   *)
(* Out writes a line feed: then everything buffered, the line feed last,   *)
(* goes to stdout in the order it was written and the buffer is emptied;   *)
(* any other Out only appends its byte to the buffer, and nothing else     *)
(* touches the buffer or stdout.  So the buffer never holds a line feed    *)
(* after a step, and stdout receives every byte once and in order.         *)
C21_OutputFlushedByLineFeed ==
    /\ [](InSession => \A i \in DOMAIN output : output[i] # LINE_FEED)
    /\ [][ InSession =>
             IF Decodes("Out") /\ Executed(Ok("Running"))
             THEN IF Value(1) = LINE_FEED
                  THEN /\ tracer'.terminal =
                            tracer.terminal \o output \o <<LINE_FEED>>
                       /\ output' = << >>
                  ELSE /\ tracer'.terminal = tracer.terminal
                       /\ output' = Append(output, Value(1))
             ELSE /\ tracer'.terminal = tracer.terminal
                  /\ output' = output
         ]_vars

(* out A; out LF; out B has run: A and the line feed are on stdout and B   *)
(* waits in the buffer                                                     *)
C21_Witness ==
    /\ InSession
    /\ tracer.terminal = <<65, LINE_FEED>>
    /\ output = <<66>>

(* the set commands of CommandLines, with the register and the value *)
SetLines ==
    { [line |-> << <<"t">>, <<"r", "0">>, <<"4", "0", "0", "0", "0">> >>,
       reg |-> 0, val |-> 40000],
      [line |-> << <<"s", "e", "t">>, <<"r", "7">>,
                   <<"6", "5", "5", "3", "5">> >>,
       reg |-> 7, val |-> 65535] }

(* C23: after the command set rN v register N holds v, and ip, the other   *)
(* registers, the stack and the memory are as before; when the next        *)
(* instruction executed reads rN as a source operand, it uses v: with      *)
(* r0 = 40000 a jmp r0 leaves ip at 40000 and a wmem r0 1 fails with       *)
(* InvalidAddress(40000).                                                  *)
C23_SetRegIsVisible ==
    /\ [][ \A set \in SetLines :
             Command(set.line) =>
               /\ registers' = [registers EXCEPT ![set.reg] = set.val]
               /\ registers'[set.reg] = set.val
               /\ UNCHANGED <<ip, stack, memory>>
         ]_vars
    /\ [][ (last.call = "SetReg" /\ registers[0] = 40000
              /\ TracerSteps /\ last'.call = "step") =>
             /\ (Decodes("Jmp") /\ Operand(1) = Register(0)) =>
                  ip' = 40000 /\ last'.ret = Ok("Running")
             /\ (Decodes("Wmem") /\ Operand(1) = Register(0)) =>
                  last'.ret = Err("InvalidAddress", 40000)
         ]_vars

(* t r0 40000 and s on jmp r0: the jump has gone to 40000 *)
C23_Witness ==
    /\ pc = "prompt"
    /\ last = Called("step", 0, Ok("Running"))
    /\ MemGet(memory, 0) = 6 /\ MemGet(memory, 1) = 32768
    /\ registers[0] = 40000
    /\ ip = 40000
    /\ hist.cmds = 2

(* the width the claim gives each instruction, and the instructions whose  *)
(* first operand it calls a Destination                                    *)
ClaimedWidth(op) ==
    CASE op \in {"Halt", "Ret", "Noop"} -> 1
      [] op \in {"Push", "Pop", "Jmp", "Call", "Out", "In"} -> 2
      [] op \in {"Set", "Jt", "Jf", "Not", "Rmem", "Wmem"} -> 3
      [] op \in {"Eq", "Gt", "Add", "Mult", "Mod", "And", "Or"} -> 4

DestinationFirst ==
    { "Set", "Pop", "Eq", "Gt", "Add", "Mult", "Mod", "And", "Or", "Not",
      "Rmem", "In" }

(* C28: a decode at a that succeeds returns the next address               *)
(* a + 1 + (the number of operands): 1 word for Halt, Ret and Noop, 2 for  *)
(* Push, Pop, Jmp, Call, Out and In, 3 for Set, Jt, Jf, Not, Rmem and      *)
(* Wmem, 4 for Eq, Gt, Add, Mult, Mod, And and Or.  The first operand of   *)
(* Set, Pop, Eq, Gt, Add, Mult, Mod, And, Or, Not, Rmem and In is decoded  *)
(* as a Destination (its word names a register, and a literal there makes  *)
(* the decode fail with InvalidDstOperand), every other operand as a       *)
(* Source (a literal or a register).                                       *)
C28_DecodeWidthsAndKinds ==
    last.call = "decode" =>
      LET a == last.arg
          word(i) == MemGet(memory, a + i)
      IN  /\ last.ret.tag = "Ok" =>
               /\ last.ret.arg = a + ClaimedWidth(last.ret.val)
               /\ \A i \in 1..(ClaimedWidth(last.ret.val) - 1) :
                    IF i = 1 /\ last.ret.val \in DestinationFirst
                    THEN word(i) \in 32768..32775
                    ELSE word(i) \in 0..32775
          /\ (InSlice(MEMORY_LEN, a + 1) /\ word(0) <= 21
                /\ word(1) < 32768) =>
               IF OpTable[word(0) + 1].op \in DestinationFirst
               THEN last.ret = Err("InvalidDstOperand", word(1))
               ELSE last.ret # Err("InvalidSrcOperand", word(1))

(* add r0 1 0 at address 0 decodes with the next address 4 *)
C28_Witness ==
    /\ last = Called("decode", 0, [tag |-> "Ok", val |-> "Add", arg |-> 4])
    /\ MemGet(memory, 1) = 32768 /\ MemGet(memory, 2) = 1

(* where C29 has a step leave ip: the target of a Jmp, of a Jt taken, of a *)
(* Jf taken and of a Call, the word a Ret pops, the decoder's next address *)
(* in every other case                                                     *)
IpAfter ==
    CASE Decodes("Jmp") -> Value(1)
      [] Decodes("Jt") -> IF Value(1) # 0 THEN Value(2) ELSE NextInstr.next
      [] Decodes("Jf") -> IF Value(1) = 0 THEN Value(2) ELSE NextInstr.next
      [] Decodes("Call") -> Value(1)
      [] Decodes("Ret") /\ stack # << >> -> stack[Len(stack)]
      [] OTHER -> NextInstr.next

(* C29 as stated: after a step that returns no error (Running or Halted)   *)
(* ip is the decoder's next address, except that Jmp sets it to its        *)
(* operand value, Jt to its target exactly when the condition is not zero, *)
(* Jf to its target exactly when the condition is zero, Call to its target *)
(* and Ret to the popped word.                                             *)
C29_IpAfterEveryOkStep ==
    [][ (last'.call = "step" /\ StepCall /\ last'.ret.tag = "Ok") =>
          ip' = IpAfter ]_vars

(* C29, amended: after a step that returns Running ip is the decoder's     *)
(* next address, except that Jmp sets it to its operand value, Jt to its   *)
(* target exactly when the condition is not zero, Jf to its target exactly *)
(* when the condition is zero, Call to its target and Ret to the popped    *)
(* word; a step that returns Halted (a Halt, or a Ret on the empty stack)  *)
(* leaves ip where it was.                                                 *)
C29_IpAfterRunningStep ==
    [][ (last'.call = "step" /\ StepCall) =>
          /\ StepReturns(Ok("Running")) => ip' = IpAfter
          /\ StepReturns(Ok("Halted")) =>
               /\ Decodes("Halt") \/ (Decodes("Ret") /\ stack = << >>)
               /\ ip' = ip
      ]_vars

(* jf r0 1 with r0 = 5 has gone on to the next address 3 *)
C29_Witness ==
    /\ StepReturned(Ok("Running"))
    /\ MemGet(memory, 0) = 8 /\ MemGet(memory, 1) = 32768
    /\ MemGet(memory, 2) = 1
    /\ registers[0] = 5
    /\ ip = 3

-----------------------------------------------------------------------------
(* The disassembler tool: it reads an image of any length, builds the      *)
(* ImageMap of it under its options and writes the text.                   *)

(* images: code with literal and register targets, targets shared by a     *)
(* jump and a call, a word that is both an operand and a target, words     *)
(* that are no instruction, an instruction cut by the end of the image,    *)
(* zeros at the end, nothing at all                                        *)
DisasImages ==
    { [pad |-> 0, words |-> w] :
        w \in { << >>,
                <<19, 72, 19, 105, 0>>,   \* out 'H'; out 'i'; halt
                <<6, 2, 21>>,             \* jmp 2; 2: noop
                <<6, 32768>>,             \* jmp r0
                <<17, 3, 0, 18>>,         \* call 3; halt; 3: ret
                <<7, 32768, 4, 17, 4>>,   \* jt r0 4; call 4 (4 is its operand)
                <<17, 2, 6, 2>>,          \* call 2; 2: jmp 2
                <<8, 1, 0, 6, 32769>>,    \* jf 1 0; jmp r1
                <<7, 1, 32770, 17, 32775>>, \* jt 1 r2; call r7
                <<6, 3, 6, 2, 2, 2>>,     \* jmp 3; 2: jmp 2; push 2
                <<6, 0, 17, 5, 8, 0, 9>>, \* 0: jmp 0; call 5; jf 0 9
                <<9, 32768>>,             \* add r0 .. cut by the end
                <<22, 65, 127, 321>>,     \* no instructions
                <<1, 32775, 39, 2, 126>>, \* set r7 '''; push '~'
                <<9, 32768, 32, 31, 96>>, \* add r0 ' ' 31; '`'
                <<2, 32767, 15, 32769, 255>>, \* push 32767; rmem r1 255
                <<21, 0, 0, 0>> } }       \* noop; halt; halt; halt

(* label files: none, an empty one, names for addresses 2 and 4, and a     *)
(* name of the generated form for address 0 next to one for address 3      *)
SeedLabels ==
    { [tag |-> "None", val |-> {}],
      [tag |-> "Some", val |-> {}],
      [tag |-> "Some", val |-> { [ptr |-> 2, name |-> <<"g", "o">>],
                                 [ptr |-> 4, name |-> <<"f", "n", "0">>] }],
      [tag |-> "Some", val |-> { [ptr |-> 0, name |-> <<"l", "b", "l", "0">>],
                                 [ptr |-> 3, name |-> <<"e", "n", "d">>] }] }

DisasOpts ==
    [autolabel : BOOLEAN, line_addrs : BOOLEAN, initial_labels : SeedLabels]

(* binary::read_binary of the image file *)
DisasRead(program) ==
    /\ disas.pc = "start"
    /\ disas' = [disas EXCEPT !.pc = "read", !.prog = program]
    /\ UNCHANGED <<memory, registers, ip, stack, input, output, last, pc,
                   runRet, loads, edits, frames, tracer, hist>>

(* ImageMap::new(&prog, &opts) *)
DisasMap(opts) ==
    /\ disas.pc = "read"
    /\ disas' = [disas EXCEPT
                   !.pc = "mapped",
                   !.opts = opts,
                   !.map = ImageMapNew(ProgramMemory(disas.prog),
                                       ProgramLen(disas.prog), opts)]
    /\ UNCHANGED <<memory, registers, ip, stack, input, output, last, pc,
                   runRet, loads, edits, frames, tracer, hist>>

(* map.disasm(..) *)
DisasWrite ==
    /\ disas.pc = "mapped"
    /\ disas' = [disas EXCEPT !.pc = "done",
                              !.text = ImageMapDisasm(disas.map, disas.opts)]
    /\ UNCHANGED <<memory, registers, ip, stack, input, output, last, pc,
                   runRet, loads, edits, frames, tracer, hist>>

NextDisasm ==
    \/ \E program \in DisasImages : DisasRead(program)
    \/ \E opts \in DisasOpts : DisasMap(opts)
    \/ DisasWrite

SpecDisasm == Init /\ [][NextDisasm]_vars

-----------------------------------------------------------------------------
(* What the claims about the disassembler speak of *)

(* the ImageMap is built *)
Mapped == disas.pc \in {"mapped", "done"}

SeedOf(opts) ==
    IF opts.initial_labels.tag = "Some" THEN opts.initial_labels.val ELSE {}

(* the image as a slice *)
ImageWord(a) == MemGet(ProgramMemory(disas.prog), a)

ImageLen == ProgramLen(disas.prog)

(* the instructions of the map that jump or call with a literal target:    *)
(* the index of the item, the address of the target operand, the target    *)
ImmediateTargets ==
    { x \in
        { [i |-> i,
           site |-> Stmts(disas.map)[i].ip
                      + (IF Stmts(disas.map)[i].instr.op \in {"Jt", "Jf"}
                         THEN 2 ELSE 1),
           t |-> Stmts(disas.map)[i].instr.args[
                      IF Stmts(disas.map)[i].instr.op \in {"Jt", "Jf"}
                      THEN 2 ELSE 1],
           call |-> Stmts(disas.map)[i].instr.op = "Call"] :
            i \in { j \in DOMAIN Stmts(disas.map) :
                      /\ Stmts(disas.map)[j].tag = "Instruction"
                      /\ Stmts(disas.map)[j].instr.op
                           \in {"Jmp", "Jt", "Jf", "Call"} } } :
        x.t.tag = "Immediate" }

(* C25: after a sweep with auto-labeling on, every seed label is in the    *)
(* map with its name at its address, also when the address is the literal  *)
(* target of a jump or call; a label of the map that is no seed label is   *)
(* at an address that has no seed label; no address has two names.         *)
C25_SeedLabelsAreKept ==
    (Mapped /\ disas.opts.autolabel) =>
      /\ \A l \in SeedOf(disas.opts) : l \in disas.map.labels
      /\ \A l \in disas.map.labels \ SeedOf(disas.opts) :
           /\ \A k \in SeedOf(disas.opts) : k.ptr # l.ptr
           /\ \E x \in ImmediateTargets : x.t.val = l.ptr
      /\ \A l \in disas.map.labels, k \in disas.map.labels :
           l.ptr = k.ptr => l = k

(* jmp 2; 2: noop swept with the seed label go at 2: the jump is a site    *)
(* and 2 is still go                                                       *)
C25_Witness ==
    /\ disas.pc = "mapped" /\ disas.opts.autolabel
    /\ disas.prog.words = <<6, 2, 21>>
    /\ [ptr |-> 2, name |-> <<"g", "o">>] \in disas.map.labels
    /\ disas.map.origins = {1}
    /\ Cardinality(disas.map.labels) = 2

(* C26: the addresses of the items of the map start at 0 and tile the      *)
(* image: an item's address plus its width (that of its instruction, 1 for *)
(* a Value) is the address of the next item, and the last item ends at the *)
(* length of the image; an item is a Value exactly when decode fails at    *)
(* its address, and then it holds the word at that address.                *)
C26_ItemsTileTheImage ==
    Mapped =>
      LET items == Stmts(disas.map)
          width(i) == IF items[i].tag = "Value" THEN 1
                      ELSE ClaimedWidth(items[i].instr.op)
          decoded(i) == InstructionDecode(ProgramMemory(disas.prog), ImageLen,
                                          items[i].ip)
      IN  /\ (items = << >>) <=> (ImageLen = 0)
          /\ items # << >> =>
               /\ items[1].ip = 0
               /\ items[Len(items)].ip + width(Len(items)) = ImageLen
          /\ \A i \in 1..(Len(items) - 1) :
               items[i].ip + width(i) = items[i + 1].ip
          /\ \A i \in DOMAIN items :
               /\ (items[i].tag = "Value") <=> (decoded(i).tag # "Ok")
               /\ items[i].tag = "Value" => items[i].word = ImageWord(items[i].ip)
               /\ items[i].tag = "Instruction" => items[i].instr = decoded(i).instr

(* add r0 ' ' 31 and the word 96 behind it: an instruction of four words   *)
(* at 0 and a Value at 4                                                   *)
C26_Witness ==
    /\ disas.pc = "mapped"
    /\ disas.prog.words = <<9, 32768, 32, 31, 96>>
    /\ Len(disas.map.stmts) = 2
    /\ disas.map.stmts[1].instr.op = "Add"
    /\ disas.map.stmts[2] = AsmValue(4, 96)
    /\ disas.map.rest = 5

(* C27: with auto-labeling on, every Jmp, Jt, Jf or Call of the map whose  *)
(* target operand is a literal t has a label for t, and the address of     *)
(* that operand is a site; when t has no seed label the name is lbl<n> if  *)
(* the first such instruction is a Jmp, Jt or Jf and fn<n> if it is a      *)
(* Call; there is no other site and no other label besides the seeds       *)
(* (register targets add none).  With auto-labeling off the labels are the *)
(* seeds and there is no site.                                             *)
C27_TargetsAreLabelled ==
    Mapped =>
      IF disas.opts.autolabel
      THEN /\ disas.map.origins = { x.site : x \in ImmediateTargets }
           /\ { l.ptr : l \in disas.map.labels } =
                { l.ptr : l \in SeedOf(disas.opts) }
                \cup { x.t.val : x \in ImmediateTargets }
           /\ \A x \in ImmediateTargets :
                (/\ \A l \in SeedOf(disas.opts) : l.ptr # x.t.val
                 /\ \A y \in ImmediateTargets : y.t.val = x.t.val => x.i <= y.i)
                => \E n \in 0..Len(disas.map.stmts) :
                     [ptr |-> x.t.val,
                      name |-> (IF x.call THEN <<"f", "n">>
                                ELSE <<"l", "b", "l">>) \o ToDecimal(n)]
                       \in disas.map.labels
      ELSE /\ disas.map.labels = SeedOf(disas.opts)
           /\ disas.map.origins = {}

(* jt r0 4; call 4 without seeds: 4 is lbl0, named by the jt, and both     *)
(* target operands are sites                                               *)
C27_Witness ==
    /\ disas.pc = "mapped" /\ disas.opts.autolabel
    /\ disas.prog.words = <<7, 32768, 4, 17, 4>>
    /\ disas.map.labels = { [ptr |-> 4, name |-> <<"l", "b", "l", "0">>] }
    /\ disas.map.origins = {2, 4}

(* how C30 has a word shown, and a line *)
ClaimedWord(p, v) ==
    IF p \in disas.map.origins /\ \E l \in disas.map.labels : l.ptr = v
    THEN (CHOOSE l \in disas.map.labels : l.ptr = v).name
    ELSE IF v \in 32..126 THEN <<"'", AsciiGraphic[v - 31], "'">>
    ELSE ToDecimal(v)

ClaimedLine(item) ==
    LET operand(i) ==
          IF item.instr.args[i].tag = "Register"
          THEN <<"r", DecimalDigits[item.instr.args[i].val + 1]>>
          ELSE ClaimedWord(item.ip + i, item.instr.args[i].val)
        n == Len(item.instr.args)
    IN  (IF disas.opts.line_addrs THEN ToDecimal(item.ip) \o <<"\t">> ELSE << >>)
        \o (IF \E l \in disas.map.labels : l.ptr = item.ip
            THEN (CHOOSE l \in disas.map.labels : l.ptr = item.ip).name
                 \o <<":", " ">>
            ELSE << >>)
        \o (IF item.tag = "Value" THEN ClaimedWord(item.ip, item.word)
            ELSE Mnemonic(item.instr.op)
                 \o (IF n >= 1 THEN <<" ">> \o operand(1) ELSE << >>)
                 \o (IF n >= 2 THEN <<",", " ">> \o operand(2) ELSE << >>)
                 \o (IF n >= 3 THEN <<",", " ">> \o operand(3) ELSE << >>))
        \o <<"\n">>

(* C30: in the text written, a word at address p with the value v is the   *)
(* label of v if p is a site and v has a label, else a quoted character if *)
(* v is in 32..126, else the decimal numeral of v; a register operand is   *)
(* r0..r7; a line begins (behind the address, when addresses are printed)  *)
(* with the label and ": " exactly when the item's address has a label.    *)
C30_WordsAndLinesRendered ==
    disas.pc = "done" =>
      LET items == Stmts(disas.map)
          RECURSIVE lines(_)
          lines(i) == IF i > Len(items) THEN << >>
                      ELSE ClaimedLine(items[i]) \o lines(i + 1)
      IN  disas.text = lines(1)

(* jmp 3; 2: jmp 2; push 2 with auto-labeling: the targets 3 and 2 are     *)
(* shown as labels, the operand 2 of push, which is no site, as a numeral  *)
C30_Witness ==
    /\ disas.pc = "done"
    /\ disas.prog.words = <<6, 3, 6, 2, 2, 2>>
    /\ disas.text =
         <<"j", "m", "p", " ", "l", "b", "l", "0", "\n",
           "l", "b", "l", "1", ":", " ", "j", "m", "p", " ",
           "l", "b", "l", "1", "\n",
           "p", "u", "s", "h", " ", "2", "\n">>

(* C22: in a session the ImageMap of the Tracer changes only in a remap    *)
(* command: poke, a Wmem executed by step or continue, label, unlabel and  *)
(* everything else leave it as it is; after remap it is the sweep of the   *)
(* memory as it is then, seeded with the label table as it is then (with   *)
(* the auto-labeling option the session was started with).                 *)
C22_MapChangesOnlyOnRemap ==
    [][ InSession =>
          IF last'.call = "Remap" /\ hist'.cmds # hist.cmds
          THEN /\ tracer'.map =
                    ImageMapNew(memory', MEMORY_LEN,
                                [autolabel |-> tracer.autolabel,
                                 line_addrs |-> FALSE,
                                 initial_labels |->
                                   [tag |-> "Some", val |-> tracer'.labels]])
               /\ memory' = memory /\ tracer'.labels = tracer.labels
          ELSE tracer'.map = tracer.map
      ]_vars

(* noop; jmp 0 after poke 1 0 and remap: the map, which had the jmp at 1,  *)
(* has the noop and nothing but Halt behind it                             *)
C22_Witness ==
    /\ pc = "prompt" /\ last.call = "Remap" /\ hist.cmds = 2
    /\ MemGet(memory, 0) = 21 /\ DOMAIN memory = {0}
    /\ tracer.map.stmts = <<Instruction(0, [op |-> "Noop", args |-> << >>])>>
    /\ tracer.map.rest = 1 /\ tracer.map.len = MEMORY_LEN

(* C24: a session of step and continue commands alone (no breakpoint, no   *)
(* command that changes the Vm, no interrupt) takes the Vm through the     *)
(* states Vm::run takes it through on the same program and input, with the *)
(* same bytes written and the same outcome: every return of Tracer::step   *)
(* leaves the Vm, the bytes written so far (on stdout or still in out_buf) *)
(* and the result as Vm::step leaves them when called in the same state    *)
(* with the input at the same point (the line just read, which is empty at *)
(* the end of the input).  Stated for the first command of a session,      *)
(* before which nothing can have been changed.                             *)
C24_TracerFollowsRun ==
    [][ (/\ TracerSteps /\ last'.call \in {"step", "abort"}
         /\ hist'.cmds = 1 /\ ~tracer.interrupt /\ hist.since < 0) =>
          LET follows(s) ==
                LET t == VmStep(s, TRUE)
                IN  /\ memory' = t.memory /\ registers' = t.registers
                    /\ ip' = t.ip /\ stack' = t.stack
                    /\ last'.ret = t.ret
                    /\ tracer'.terminal \o output' = tracer.terminal \o t.output
          IN  IF pc = "input"
              THEN \A line \in InputLines :
                     ReadLine(line) => follows([Cur EXCEPT !.input = line])
              ELSE follows(Cur)
      ]_vars

-----------------------------------------------------------------------------
(* What a step leaves alone *)

(* C31: a step that returns no error changes the memory only when it       *)
(* executes Wmem, and then in one word, the one addressed; it changes the  *)
(* stack only when it executes Push or Call, which add one element at the  *)
(* top, or Pop or Ret, which remove the top element; it changes one        *)
(* register at most, the Destination of the instruction, so Noop, Jmp, Jt, *)
(* Jf, Out, Push, Call, Ret, Wmem and Halt change no register.             *)
C31_StepFrame ==
    [][ (last'.call = "step" /\ StepCall /\ last'.ret.tag = "Ok") =>
          LET words == { a \in DOMAIN memory \cup DOMAIN memory' :
                           MemGet(memory', a) # MemGet(memory, a) }
              regs == { r \in 0..(NUM_REGISTERS - 1) :
                          registers'[r] # registers[r] }
          IN  /\ words # {} => Decodes("Wmem") /\ words = {Value(1)}
              /\ stack' # stack =>
                   \/ /\ Decodes("Push") \/ Decodes("Call")
                      /\ Len(stack') = Len(stack) + 1
                      /\ SubSeq(stack', 1, Len(stack)) = stack
                   \/ /\ Decodes("Pop") \/ Decodes("Ret")
                      /\ Len(stack) = Len(stack') + 1
                      /\ SubSeq(stack, 1, Len(stack')) = stack'
              /\ regs # {} =>
                   /\ NextInstr.instr.op \in DestinationFirst
                   /\ regs = {Operand(1).val}
      ]_vars

(* add r7 32767 r0 with r0 = 5 and 2 on the stack: r7 is 4, r0 and the     *)
(* stack are as they were                                                  *)
C31_Witness ==
    /\ StepReturned(Ok("Running"))
    /\ MemGet(memory, 0) = 9 /\ MemGet(memory, 1) = 32775
    /\ DOMAIN memory = 0..3
    /\ registers[7] = 4 /\ registers[0] = 5
    /\ \A r \in 1..6 : registers[r] = 0
    /\ stack = <<2>>
    /\ ip = 4

-----------------------------------------------------------------------------
(* Continue and the state it starts in *)

(* C32: a continue without a target that starts with ip at a breakpoint    *)
(* address, the interrupt flag clear and a next instruction that decodes   *)
(* and is neither Halt nor In calls vm.step on that instruction in the     *)
(* first turn of its loop: the breakpoint it starts on does not make it    *)
(* return.                                                                 *)
C32_ContinueLeavesItsBreakpoint ==
    [][ (/\ ContinueLoop /\ ~tracer.single_step /\ hist.ran = 0
         /\ tracer.til.tag = "None"
         /\ ip \in tracer.breakpoints /\ ~tracer.interrupt
         /\ NextInstr.tag = "Ok" /\ NextInstr.instr.op \notin {"Halt", "In"}) =>
          /\ last'.call = "step"
          /\ last'.ret = VmStep(Cur, TRUE).ret
          /\ ip' = VmStep(Cur, TRUE).ip
          /\ last'.ret.tag = "Ok" => hist'.ran = 1
      ]_vars

(* noop; jmp 0 after b 0 and c: the continue has left the breakpoint at 0, *)
(* executed both instructions and stopped when the jmp came back to 0      *)
C32_Witness ==
    /\ pc = "prompt"
    /\ last = Called("step", 0, Ok("Running"))
    /\ ~tracer.single_step
    /\ MemGet(memory, 0) = 21 /\ MemGet(memory, 1) = 6
    /\ ip = 0
    /\ tracer.breakpoints = {0}
    /\ hist.cmds = 2 /\ hist.ran = 2

(* C33: an interrupt raised while the tracer waits at the command prompt   *)
(* has no effect on a continue issued afterwards, which executes as if the *)
(* flag had never been raised: in the first turn of its loop it goes on to *)
(* Tracer::step, and an instruction that is no In is executed by vm.step.  *)
(* Stated for the first command of a session with no interrupt raised      *)
(* since the command was read, so that a flag found set was set at the     *)
(* prompt.                                                                 *)
C33_PromptInterruptIsForgotten ==
    [][ (/\ ContinueLoop /\ ~tracer.single_step
         /\ hist.cmds = 1 /\ hist.ran = 0 /\ hist.since < 0
         /\ BelowTarget(ip, tracer.til)) =>
          /\ last'.call \in {"step", "abort", "ensure_input"}
          /\ (NextInstr.tag = "Ok" /\ NextInstr.instr.op # "In") =>
               /\ last' = Called("step", 0, VmStep(Cur, TRUE).ret)
               /\ ip' = VmStep(Cur, TRUE).ip
      ]_vars

-----------------------------------------------------------------------------
(* References and definitions in a listing *)

(* the names shown in operand positions: the operands (and the data words) *)
(* that WordDisasm shows by the name of a label                            *)
ReferencedNames ==
    LET items == Stmts(disas.map)
        shown(word, at) ==
            /\ at \in disas.map.origins
            /\ LabelsGet(disas.map.labels, word).tag = "Some"
    IN  { WordDisasm(items[i].instr.args[p].val, items[i].ip + p, disas.map) :
            <<i, p>> \in
              { x \in (DOMAIN items) \X (1..3) :
                  /\ items[x[1]].tag = "Instruction"
                  /\ x[2] <= Len(items[x[1]].instr.args)
                  /\ items[x[1]].instr.args[x[2]].tag = "Immediate"
                  /\ (x[2] = 1 => items[x[1]].instr.op \notin DestinationFirst)
                  /\ shown(items[x[1]].instr.args[x[2]].val,
                           items[x[1]].ip + x[2]) } }
        \cup { WordDisasm(items[i].word, items[i].ip, disas.map) :
                 i \in { j \in DOMAIN items :
                           /\ items[j].tag = "Value"
                           /\ shown(items[j].word, items[j].ip) } }

(* the lines of a text, without their line feeds *)
RECURSIVE TextLines(_)
TextLines(text) ==
    IF text = << >> THEN {}
    ELSE LET n == CHOOSE k \in 1..Len(text) :
                    /\ text[k] = "\n" \/ k = Len(text)
                    /\ \A j \in 1..(k - 1) : text[j] # "\n"
         IN  {SubSeq(text, 1, IF text[n] = "\n" THEN n - 1 ELSE n)}
             \cup TextLines(SubSeq(text, n + 1, Len(text)))

(* the names the lines of the listing define: what stands before ": " at   *)
(* the head of a line, behind the address and tab if addresses are shown   *)
DefinedNames ==
    LET body(line) ==
            IF disas.opts.line_addrs
            THEN LET t == CHOOSE k \in 1..Len(line) : line[k] = "\t"
                 IN  SubSeq(line, t + 1, Len(line))
            ELSE line
    IN  { SubSeq(body(line), 1, k - 1) :
            <<line, k>> \in
              { x \in { <<l, j>> : l \in TextLines(disas.text), j \in 1..40 } :
                  /\ x[2] < Len(body(x[1]))
                  /\ body(x[1])[x[2]] = ":" /\ body(x[1])[x[2] + 1] = " "
                  /\ \A j \in 1..(x[2] - 1) :
                       body(x[1])[j] \notin {":", " ", "'"} } }

(* C34: in a listing written with auto-labeling on, every name shown in an *)
(* operand position is also defined by some line of the listing, whatever  *)
(* the image.                                                              *)
C34_ReferencesAreDefined ==
    (disas.pc = "done" /\ disas.opts.autolabel) =>
      ReferencedNames \subseteq DefinedNames

=============================================================================
